---------------------------- MODULE Spec2Model ----------------------------
(***************************************************************************)
(* Transit frequency engine of seattle-frequent-transit-network.           *)
(*                                                                         *)
(*   isochrone-generation/extract-all-stops.js                             *)
(*       getRelevantServiceIds, calculateStopFrequencies,                  *)
(*       extractStopsFromZip                                               *)
(*   seattle-transit-access.tsx                                            *)
(*       processAllStopsData, addFutureStops, findIsochroneForStop,        *)
(*       calculateWalkshedCoverage, loadCensusData, the effects that       *)
(*       load the libraries, the boundary, the stops and the isochrones    *)
(*       and the effect that recalculates the walksheds                    *)
(*       and handleYearChange with the loads it starts                     *)
(*   generate-isochrones                                                   *)
(*       generateIsochrones, generateAllIsochrones, main                   *)
(*                                                                         *)
(* JavaScript strings are sequences of one-character strings, so that      *)
(* parseInt, substring, padStart, split, the relational operators on       *)
(* strings and the property keys of plain objects are computed the way     *)
(* the engine computes them.  Polygons are sets of cells of a corridor of   *)
(* equal cells, so that union, intersection, difference, containment and   *)
(* area are computed rather than assumed.                                  *)
(***************************************************************************)
EXTENDS Integers, Sequences, FiniteSets, TLC

VARIABLES
    \* getRelevantServiceIds
    calendar,            \* parsedCalendar.data
    gpc,                 \* position inside getRelevantServiceIds
    latestStartDate,     \* allStartDates[allStartDates.length - 1]
    wednesdayDate,       \* the Date object advanced by the while loop
    advances,            \* number of setDate(getDate() + 1) calls made
    wednesdayDateStr,    \* the formatted YYYYMMDD string
    relevantServiceIds,  \* the returned Set
    \* calculateStopFrequencies / extractStopsFromZip
    trips,               \* parsedTrips.data
    activeServiceIds,    \* argument of calculateStopFrequencies
    stopTimes,           \* stop-time records handed to forEach so far
    fpc,                 \* position inside the extraction
    stopRouteDirectionHeadways, \* insertion-ordered groups
    stopFrequencies,     \* Map returned by calculateStopFrequencies
    \* processAllStopsData / addFutureStops
    selectedYear,
    allStops,            \* all_stops_{year}.json
    ppc,                 \* position inside processAllStopsData
    frequentStopList,    \* result of the filter
    futureStopsFile,     \* what the fetch of future_stops_{year}.json gave
    frequentStops,       \* React state set by setFrequentStops
    \* findIsochroneForStop / calculateWalkshedCoverage
    turfLoaded,          \* React state set when turf.min.js has loaded
    isochrones,          \* React state: Map from stop_id key to its record
    stopList,            \* argument of calculateWalkshedCoverage
    boundary,            \* argument of calculateWalkshedCoverage
    cpc,                 \* position inside calculateWalkshedCoverage
    walksheds,           \* the array built by stopList.map
    union,               \* the accumulator of the union loop
    unionIdx,            \* the loop variable i (0-based, as in the source)
    unionRaised,         \* the i whose turf.union call raised
    clipRaised,          \* primitives of the clipping step that raised
    clipped,             \* what turf.intersect left in clipped
    diff,                \* what turf.difference returned
    result,              \* the returned object
    \* loadCensusData
    walkshedPolygon,     \* argument of loadCensusData
    censusFetch,         \* what the fetch of the census file gave
    blockGeometries,     \* features of the census file
    bpc,                 \* position inside loadCensusData
    blockIdx,            \* number of features forEach has visited
    blockCalls,          \* per visited block, what each primitive did
    populationInWalkshed,
    blocksInWalkshed,
    censusData,          \* React state
    loadingCensus,       \* React state
    censusBlocks,        \* React state
    \* the effects of the component
    seattleBoundary,     \* React state
    stats,               \* React state
    mergedPolygonRef,    \* mergedPolygonRef.current
    mergedPolygonOutOfBoundsRef,
    turfScript,          \* the script element of turf.min.js
    boundaryLoad,        \* loadSeattleBoundary
    stopsLoad,           \* loadUploadedFile, with the state its render saw
    isoLoad,             \* loadIsochrones
    \* handleYearChange and the loads it starts
    pendingLoads,        \* the stop and isochrone loads in flight, oldest first
    yearChanges,         \* number of year selections made
    \* generateAllIsochrones
    genStops,            \* all_stops_{DATASET}.json
    existingIsochrones,  \* isochrones of the output file, if it exists
    genIsochrones,       \* the array the call builds and returns
    stopsToProcess,      \* the stops the filter kept
    genIdx,              \* the loop variable i
    genRequests,         \* ids of the stops generateIsochrones fetched for
    genFailed,           \* ids of the stops whose request gave null
    genRuns,             \* number of runs of the script started
    lastRun,             \* what the run before this one requested and missed
    genpc                \* position inside generateAllIsochrones

calVars == <<calendar, gpc, latestStartDate, wednesdayDate, advances,
             wednesdayDateStr, relevantServiceIds>>
freqVars == <<trips, activeServiceIds, stopTimes, fpc,
              stopRouteDirectionHeadways, stopFrequencies>>
clsVars == <<selectedYear, allStops, ppc, frequentStopList, futureStopsFile,
             frequentStops>>
covVars == <<turfLoaded, isochrones, stopList, boundary, cpc, walksheds,
             union, unionIdx, unionRaised, clipRaised, clipped, diff, result>>
cenVars == <<walkshedPolygon, censusFetch, blockGeometries, bpc, blockIdx,
             blockCalls, populationInWalkshed, blocksInWalkshed,
             censusData, loadingCensus, censusBlocks>>
appVars == <<seattleBoundary, stats, mergedPolygonRef,
             mergedPolygonOutOfBoundsRef, turfScript, boundaryLoad, stopsLoad,
             isoLoad>>
sesVars == <<pendingLoads, yearChanges>>
genVars == <<genStops, existingIsochrones, genIsochrones, stopsToProcess,
             genIdx, genRequests, genFailed, genRuns, lastRun, genpc>>
extVars == <<sesVars, genVars>>
geoVars == <<covVars, cenVars, appVars, extVars>>
vars == <<calVars, freqVars, clsVars, geoVars>>

-----------------------------------------------------------------------------
(* JavaScript strings and numbers *)

Digit == <<"0", "1", "2", "3", "4", "5", "6", "7", "8", "9">>

IsDigit(c) == \E i \in 1..10 : Digit[i] = c

DigitVal(c) == (CHOOSE i \in 1..10 : Digit[i] = c) - 1

\* UTF-16 code units of the characters the inputs use
CharCode(c) ==
    IF IsDigit(c) THEN 48 + DigitVal(c)
    ELSE CASE c = ":" -> 58
           [] c = "N" -> 78
           [] c = "a" -> 97
           [] c = "r" -> 114
           [] c = "s" -> 115
           [] c = "t" -> 116
           [] c = "x" -> 120
           [] c = "|" -> 124
           [] OTHER -> 65

RECURSIVE StrLess(_, _)
\* a < b on strings: code unit by code unit, a proper prefix is smaller
StrLess(a, b) ==
    IF b = <<>> THEN FALSE
    ELSE IF a = <<>> THEN TRUE
    ELSE IF Head(a) = Head(b) THEN StrLess(Tail(a), Tail(b))
    ELSE CharCode(Head(a)) < CharCode(Head(b))

StrLeq(a, b) == a = b \/ StrLess(a, b)

\* s.substring(from, to), 0-based, to exclusive, clamped to the length
Substring(s, from, to) ==
    LET hi == IF to > Len(s) THEN Len(s) ELSE to
    IN  IF from >= hi THEN <<>> ELSE SubSeq(s, from + 1, hi)

RECURSIVE LeadingDigits(_)
LeadingDigits(s) ==
    IF s = <<>> \/ ~IsDigit(Head(s)) THEN <<>>
    ELSE <<Head(s)>> \o LeadingDigits(Tail(s))

RECURSIVE DigitsValue(_)
DigitsValue(ds) ==
    IF ds = <<>> THEN 0
    ELSE 10 * DigitsValue(SubSeq(ds, 1, Len(ds) - 1)) + DigitVal(ds[Len(ds)])

\* parseInt(s) is NaN when s does not start with a digit
ParseIntIsNaN(s) == LeadingDigits(s) = <<>>

\* parseInt(s) otherwise: the value of the leading run of digits
ParseInt(s) == DigitsValue(LeadingDigits(s))

RECURSIVE NatToString(_)
NatToString(n) ==
    IF n < 10 THEN <<Digit[n + 1]>>
    ELSE NatToString(n \div 10) \o <<Digit[(n % 10) + 1]>>

\* Number.prototype.toString for integers
NumToString(n) == IF n < 0 THEN <<"-">> \o NatToString(0 - n) ELSE NatToString(n)

NaNString == <<"N", "a", "N">>

\* s.padStart(2, '0')
PadStart2(s) == IF Len(s) >= 2 THEN s ELSE IF Len(s) = 1 THEN <<"0">> \o s
                ELSE <<"0", "0">>

\* time.split(':')[0]
RECURSIVE SplitColonFirst(_)
SplitColonFirst(s) ==
    IF s = <<>> \/ Head(s) = ":" THEN <<>>
    ELSE <<Head(s)>> \o SplitColonFirst(Tail(s))

-----------------------------------------------------------------------------
(* JavaScript Date, local calendar days *)

LeapsBefore(y) == ((y - 1) \div 4) - ((y - 1) \div 100) + ((y - 1) \div 400)

IsLeap(y) == (y % 4 = 0 /\ y % 100 # 0) \/ y % 400 = 0

DaysBeforeYear(y) == 365 * (y - 1970) + LeapsBefore(y) - LeapsBefore(1970)

MonthLen(y, m0) ==
    IF m0 = 1 THEN (IF IsLeap(y) THEN 29 ELSE 28)
    ELSE IF m0 \in {3, 5, 8, 10} THEN 30 ELSE 31

RECURSIVE DaysBeforeMonth(_, _)
DaysBeforeMonth(y, m0) ==
    IF m0 = 0 THEN 0 ELSE DaysBeforeMonth(y, m0 - 1) + MonthLen(y, m0 - 1)

\* new Date(year, month, day): months and days out of range carry over,
\* years 0..99 mean 1900..1999; the value is the day number, day 0 being
\* 1970-01-01
MakeDay(year, month, day) ==
    LET y1 == IF year \in 0..99 THEN 1900 + year ELSE year
        y  == y1 + (month \div 12)
        m0 == month % 12
    IN  DaysBeforeYear(y) + DaysBeforeMonth(y, m0) + (day - 1)

\* Date.prototype.getDay: 0 is Sunday, 1970-01-01 was a Thursday
GetDay(d) == (d + 4) % 7

GetFullYear(d) ==
    LET guess == 1970 + (d \div 365)
    IN  CHOOSE y \in (guess - 2)..(guess + 2) :
            DaysBeforeYear(y) <= d /\ d < DaysBeforeYear(y + 1)

GetMonth(d) ==
    LET y == GetFullYear(d)
        r == d - DaysBeforeYear(y)
    IN  CHOOSE m0 \in 0..11 :
            DaysBeforeMonth(y, m0) <= r /\ r < DaysBeforeMonth(y, m0) + MonthLen(y, m0)

GetDate(d) ==
    LET y == GetFullYear(d)
    IN  d - DaysBeforeYear(y) - DaysBeforeMonth(y, GetMonth(d)) + 1

-----------------------------------------------------------------------------
(* Inputs of getRelevantServiceIds *)

MaxEntries == 2
MaxAdvances == 8

D20240229 == <<"2", "0", "2", "4", "0", "2", "2", "9">>
D20241226 == <<"2", "0", "2", "4", "1", "2", "2", "6">>
D20250101 == <<"2", "0", "2", "5", "0", "1", "0", "1">>

\* calendar.txt dates; the empty string is a missing field
DateStrs == {<<>>, D20240229, D20241226, D20250101}

\* monday..friday columns: a Mon-Fri service and a Mon-Thu service
WeekPatterns ==
    { [monday |-> "1", tuesday |-> "1", wednesday |-> "1", thursday |-> "1", friday |-> "1"],
      [monday |-> "1", tuesday |-> "1", wednesday |-> "1", thursday |-> "1", friday |-> "0"] }

ServiceIdOf(i) == <<"s">> \o NumToString(i)

CalendarRow(i, w, sd, ed) ==
    [service_id |-> ServiceIdOf(i),
     monday |-> w.monday, tuesday |-> w.tuesday, wednesday |-> w.wednesday,
     thursday |-> w.thursday, friday |-> w.friday,
     start_date |-> sd, end_date |-> ed]

\* the rows of a calendar.txt, f[i] = <<week pattern, start_date, end_date>>
CalendarOf(f) ==
    [i \in DOMAIN f |-> CalendarRow(i, f[i][1], f[i][2], f[i][3])]

CalendarChoices(n) == [1..n -> WeekPatterns \X DateStrs \X DateStrs]

InvalidDate == [valid |-> FALSE, day |-> 0]

-----------------------------------------------------------------------------
(* getRelevantServiceIds *)

RECURSIVE InsertSorted(_, _)
InsertSorted(x, s) ==
    IF s = <<>> THEN <<x>>
    ELSE IF StrLess(x, Head(s)) THEN <<x>> \o s
    ELSE <<Head(s)>> \o InsertSorted(x, Tail(s))

RECURSIVE SortStrings(_)
\* Array.prototype.sort() without comparator: ascending string order
SortStrings(s) ==
    IF s = <<>> THEN <<>> ELSE InsertSorted(Head(s), SortStrings(Tail(s)))

IsWeekdayEntry(c) ==
    /\ c.monday = "1"
    /\ c.tuesday = "1"
    /\ c.wednesday = "1"
    /\ c.thursday = "1"
    /\ c.friday = "1"

weekdayServiceEntries(cal) == SelectSeq(cal, IsWeekdayEntry)

IsTruthyStr(d) == d # <<>>

allStartDates(cal) ==
    LET starts == [i \in 1..Len(weekdayServiceEntries(cal)) |->
                       weekdayServiceEntries(cal)[i].start_date]
    IN  SortStrings(SelectSeq(starts, IsTruthyStr))

\* the earliest start date instead of the latest
LatestOf_First(sorted) == sorted[1]

LatestOf(sorted) == sorted[Len(sorted)]

\* new Date(year, month, day) with the three parsed substrings
ParseStartDate(s) ==
    LET ys == Substring(s, 0, 4)
        ms == Substring(s, 4, 6)
        ds == Substring(s, 6, 8)
    IN  IF ParseIntIsNaN(ys) \/ ParseIntIsNaN(ms) \/ ParseIntIsNaN(ds)
        THEN InvalidDate
        ELSE [valid |-> TRUE,
              day |-> MakeDay(ParseInt(ys), ParseInt(ms) - 1, ParseInt(ds))]

\* wednesdayDate.getDay() !== 3
NotWednesday(d) == ~d.valid \/ GetDay(d.day) # 3

\* wednesdayDate.setDate(wednesdayDate.getDate() + 1)
SetDateNext(d) ==
    IF ~d.valid THEN d
    ELSE [valid |-> TRUE,
          day |-> MakeDay(GetFullYear(d.day), GetMonth(d.day), GetDate(d.day) + 1)]

FormatDate(d) ==
    NumToString(GetFullYear(d.day))
        \o PadStart2(NumToString(GetMonth(d.day) + 1))
        \o PadStart2(NumToString(GetDate(d.day)))

DefaultStart == <<"0">>

\* the default of the start date used for the end date too
DefaultEnd_AsStart == <<"0">>

DefaultEnd == <<"9", "9", "9", "9", "9", "9", "9", "9">>

\* the end date taken as exclusive
ActiveOn_EndExclusive(s, wstr) ==
    LET start == IF s.start_date # <<>> THEN s.start_date ELSE DefaultStart
        end   == IF s.end_date # <<>> THEN s.end_date ELSE DefaultEnd
    IN  StrLeq(start, wstr) /\ StrLess(wstr, end)

ActiveOn(s, wstr) ==
    LET start == IF s.start_date # <<>> THEN s.start_date ELSE DefaultStart
        end   == IF s.end_date # <<>> THEN s.end_date ELSE DefaultEnd
    IN  StrLeq(start, wstr) /\ StrLeq(wstr, end)

ActiveIdsOn(cal, wstr) ==
    LET w == weekdayServiceEntries(cal)
    IN  { w[i].service_id : i \in { j \in 1..Len(w) : ActiveOn(w[j], wstr) } }

\* lines 259-282: no Mon-Fri entry, or none with a start date
GRS_ReturnEmpty ==
    /\ gpc = "start"
    /\ \/ Len(weekdayServiceEntries(calendar)) = 0
       \/ Len(allStartDates(calendar)) = 0
    /\ relevantServiceIds' = {}
    /\ gpc' = "done"
    /\ UNCHANGED <<calendar, latestStartDate, wednesdayDate, advances, wednesdayDateStr>>

\* lines 259-293: pick the latest start date and build the Date
GRS_ParseLatest ==
    /\ gpc = "start"
    /\ Len(weekdayServiceEntries(calendar)) # 0
    /\ Len(allStartDates(calendar)) # 0
    /\ latestStartDate' = LatestOf(allStartDates(calendar))
    /\ wednesdayDate' = ParseStartDate(latestStartDate')
    /\ gpc' = "loop"
    /\ UNCHANGED <<calendar, advances, wednesdayDateStr, relevantServiceIds>>

\* lines 294-296: one iteration of the while loop
GRS_Advance ==
    /\ gpc = "loop"
    /\ NotWednesday(wednesdayDate)
    /\ advances < MaxAdvances
    /\ wednesdayDate' = SetDateNext(wednesdayDate)
    /\ advances' = advances + 1
    /\ UNCHANGED <<calendar, gpc, latestStartDate, wednesdayDateStr, relevantServiceIds>>

\* lines 298-315: format the Wednesday and select the services
GRS_Return ==
    /\ gpc = "loop"
    /\ ~NotWednesday(wednesdayDate)
    /\ wednesdayDateStr' = FormatDate(wednesdayDate)
    /\ relevantServiceIds' = ActiveIdsOn(calendar, wednesdayDateStr')
    /\ gpc' = "done"
    /\ UNCHANGED <<calendar, latestStartDate, wednesdayDate, advances>>

getRelevantServiceIds ==
    \/ GRS_ReturnEmpty
    \/ GRS_ParseLatest
    \/ GRS_Advance
    \/ GRS_Return

CalIdle ==
    /\ gpc = "start"
    /\ latestStartDate = <<>>
    /\ wednesdayDate = InvalidDate
    /\ advances = 0
    /\ wednesdayDateStr = <<>>
    /\ relevantServiceIds = {}

-----------------------------------------------------------------------------
(* Inputs of calculateStopFrequencies *)

MaxStopTimes == 2

R100173 == <<"1", "0", "0", "1", "7", "3">>
R100219 == <<"1", "0", "0", "2", "1", "9">>
R9 == <<"9">>
RouteIds == {R100173, R100219, R9}
DirectionIds == {<<"0">>, <<"1">>}

\* trip_id column of trips.txt, one row per id
TripIdList == << <<"7">>, <<"t", "1">> >>

StopIdList == << <<"1", "0">>, <<"2", "0">> >>

T0710 == <<"0", "7", ":", "1", "0", ":", "0", "0">>
T0805 == <<"0", "8", ":", "0", "5", ":", "0", "0">>
T2530 == <<"2", "5", ":", "3", "0", ":", "0", "0">>

\* <<arrival_time, departure_time>> of a stop_times.txt row
TimePairs == { <<T0710, <<>>>>, <<T0805, T0710>>, <<<<>>, T2530>> }

\* the rows of a trips.txt, f[i] = <<route_id, direction_id, service_id>>
TripTableOf(f) ==
    [i \in DOMAIN f |->
        [trip_id |-> TripIdList[i], route_id |-> f[i][1],
         direction_id |-> f[i][2], service_id |-> f[i][3]]]

TripChoices ==
    [1..Len(TripIdList) ->
        RouteIds \X DirectionIds \X {ServiceIdOf(1), ServiceIdOf(2)}]

\* no service selected, or the first service of calendar.txt selected
ActiveSets == { {}, {ServiceIdOf(1)} }

StopTimeRows ==
    { [trip_id |-> TripIdList[i], stop_id |-> StopIdList[j],
       arrival_time |-> tp[1], departure_time |-> tp[2]] :
        i \in 1..Len(TripIdList), j \in 1..Len(StopIdList), tp \in TimePairs }

Hours == 0..23

-----------------------------------------------------------------------------
(* calculateStopFrequencies *)

\* tripInfo[t.trip_id]: the last row of trips.txt with that id
tripInfo(tr, tid) ==
    LET idx == { i \in 1..Len(tr) : tr[i].trip_id = tid }
    IN  tr[CHOOSE i \in idx : \A j \in idx : j <= i]

HasTripInfo(tr, tid) == \E i \in 1..Len(tr) : tr[i].trip_id = tid

activeTrips(tr, active) ==
    { tr[i].trip_id : i \in { j \in 1..Len(tr) : tr[j].service_id \in active } }

\* combinableRoutes, as a function on the route ids it has
combinableRoutes == (R100173 :> R100219) @@ (R100219 :> R100173)

CombinedRoute(route_id) ==
    IF route_id \in DOMAIN combinableRoutes
    THEN LET sorted == SortStrings(<<route_id, combinableRoutes[route_id]>>)
         IN  sorted[1] \o <<"|">> \o sorted[2]
    ELSE route_id

GroupKey(stopId, route_id, direction_id) ==
    stopId \o <<"|">> \o route_id \o <<"|">> \o direction_id

\* the property key of tripTimes[hour], hour = parseInt(time.split(':')[0]) % 24
HourKey(time) ==
    LET field == SplitColonFirst(time)
    IN  IF ParseIntIsNaN(field) THEN NaNString
        ELSE NumToString(ParseInt(field) % 24)

GroupIndex(groups, key) ==
    IF \E i \in 1..Len(groups) : groups[i].key = key
    THEN CHOOSE i \in 1..Len(groups) : groups[i].key = key
    ELSE 0

\* tripTimes[tripId] is looked up among the very properties that the hour
\* buckets are stored under
TripAlreadyCounted(tripTimes, tripId) == tripId \in DOMAIN tripTimes

AddTrip(tripTimes, hourKey, tripId) ==
    IF TripAlreadyCounted(tripTimes, tripId) THEN tripTimes
    ELSE IF hourKey \in DOMAIN tripTimes
         THEN [tripTimes EXCEPT ![hourKey] = @ \cup {tripId}]
         ELSE tripTimes @@ (hourKey :> {tripId})

EmptyObject == [k \in {} |-> {}]

\* the body of the forEach callback, lines 175-216
ProcessStopTime(groups, tr, stopTime) ==
    LET time == IF stopTime.arrival_time # <<>> THEN stopTime.arrival_time
                ELSE stopTime.departure_time
        tripId == stopTime.trip_id
        stopId == stopTime.stop_id
    IN  IF time = <<>> THEN groups
        ELSE IF ~HasTripInfo(tr, tripId) THEN groups
        ELSE LET trip == tripInfo(tr, tripId)
                 route_id == CombinedRoute(trip.route_id)
                 key == GroupKey(stopId, route_id, trip.direction_id)
                 withGroup ==
                     IF GroupIndex(groups, key) = 0
                     THEN Append(groups, [key |-> key, stop_id |-> stopId,
                                          route_id |-> route_id,
                                          direction_id |-> trip.direction_id,
                                          tripTimes |-> EmptyObject])
                     ELSE groups
                 g == GroupIndex(withGroup, key)
             IN  [withGroup EXCEPT
                     ![g].tripTimes = AddTrip(@, HourKey(time), tripId)]

\* hourlyTrips[h] = tripTimes[h] ? tripTimes[h].size : 0
GroupCount(tripTimes, h) ==
    IF NumToString(h) \in DOMAIN tripTimes
    THEN Cardinality(tripTimes[NumToString(h)]) ELSE 0

MaxOf(a, b) == IF a >= b THEN a ELSE b

\* the groups of a stop added up
MergeHour_Sum(existing, fresh) == existing + fresh

\* Math.max(existingFreq[h] || 0, hourlyTrips[h] || 0)
MergeHour(existing, fresh) == MaxOf(existing, fresh)

RECURSIVE stopMaxFrequencies(_, _)
\* lines 220-239: fold of the groups, in insertion order, into the Map
stopMaxFrequencies(groups, acc) ==
    IF groups = <<>> THEN acc
    ELSE LET g == Head(groups)
             hourlyTrips == [h \in Hours |-> GroupCount(g.tripTimes, h)]
             next ==
                 IF g.stop_id \notin DOMAIN acc
                 THEN acc @@ (g.stop_id :> hourlyTrips)
                 ELSE [acc EXCEPT ![g.stop_id] =
                          [h \in Hours |-> MergeHour(@[h], hourlyTrips[h])]]
         IN  stopMaxFrequencies(Tail(groups), next)

HourStrs == { NumToString(h) : h \in Hours }

HourOfStr(k) == CHOOSE h \in Hours : NumToString(h) = k

\* lines 242-249: the same Map with the keys h.toString()
WithStringKeys(m) ==
    [stopId \in DOMAIN m |-> [k \in HourStrs |-> m[stopId][HourOfStr(k)]]]

EmptyMap == [k \in {} |-> EmptyObject]

\* lines 139-142
CSF_NoActiveService ==
    /\ fpc = "start"
    /\ activeServiceIds = {}
    /\ stopFrequencies' = EmptyMap
    /\ fpc' = "returned"
    /\ UNCHANGED <<trips, activeServiceIds, stopTimes, stopRouteDirectionHeadways>>

\* lines 144-170
CSF_Begin ==
    /\ fpc = "start"
    /\ activeServiceIds # {}
    /\ stopRouteDirectionHeadways' = <<>>
    /\ fpc' = "forEach"
    /\ UNCHANGED <<trips, activeServiceIds, stopTimes, stopFrequencies>>

\* lines 173-216: the next stop_times.txt row goes through filter and forEach
CSF_StopTime ==
    /\ fpc = "forEach"
    /\ Cardinality(stopTimes) < MaxStopTimes
    /\ \E st \in StopTimeRows :
          /\ stopTimes' = stopTimes \cup {st}
          /\ stopRouteDirectionHeadways' =
                IF st.trip_id \in activeTrips(trips, activeServiceIds)
                THEN ProcessStopTime(stopRouteDirectionHeadways, trips, st)
                ELSE stopRouteDirectionHeadways
    /\ UNCHANGED <<trips, activeServiceIds, fpc, stopFrequencies>>

\* lines 218-251
CSF_Aggregate ==
    /\ fpc = "forEach"
    /\ stopFrequencies' =
          WithStringKeys(stopMaxFrequencies(stopRouteDirectionHeadways, EmptyMap))
    /\ fpc' = "returned"
    /\ UNCHANGED <<trips, activeServiceIds, stopTimes, stopRouteDirectionHeadways>>

calculateStopFrequencies ==
    \/ CSF_NoActiveService
    \/ CSF_Begin
    \/ CSF_StopTime
    \/ CSF_Aggregate

FreqIdle ==
    /\ trips = <<>>
    /\ activeServiceIds = {}
    /\ stopTimes = {}
    /\ fpc = "idle"
    /\ stopRouteDirectionHeadways = <<>>
    /\ stopFrequencies = EmptyMap

-----------------------------------------------------------------------------
(* extractStopsFromZip, lines 115-130 *)

DatasetFeedPrefix == <<"2", "0", "2", "5", "_", "m", "e", "t", "r", "o", "_">>

\* stops.txt: two served stops, one never served, one without coordinates
ParsedStops ==
    << [stop_id |-> StopIdList[1], stop_lat |-> <<"4", "7">>, stop_lon |-> <<"1", "2", "2">>],
       [stop_id |-> StopIdList[2], stop_lat |-> <<"4", "7">>, stop_lon |-> <<"1", "2", "2">>],
       [stop_id |-> <<"3", "0">>, stop_lat |-> <<"4", "7">>, stop_lon |-> <<"1", "2", "2">>],
       [stop_id |-> <<"4", "0">>, stop_lat |-> <<>>, stop_lon |-> <<"1", "2", "2">>] >>

\* isNaN(parseFloat(s)) for the unsigned decimal strings of stops.txt
ParseFloatIsNaN(s) == s = <<>> \/ ~IsDigit(Head(s))

HasCoordinates(s) == ~ParseFloatIsNaN(s.stop_lat) /\ ~ParseFloatIsNaN(s.stop_lon)

\* hourly_trips without the || {} default
StopWithFrequencies_NoDefault(freq, s) ==
    [id |-> DatasetFeedPrefix \o s.stop_id,
     original_id |-> s.stop_id,
     has_hourly_trips |-> s.stop_id \in DOMAIN freq,
     hourly_trips |-> IF s.stop_id \in DOMAIN freq THEN freq[s.stop_id]
                      ELSE EmptyObject]

\* hourly_trips: stopFrequencies.get(s.stop_id) || {}
StopWithFrequencies(freq, s) ==
    [id |-> DatasetFeedPrefix \o s.stop_id,
     original_id |-> s.stop_id,
     has_hourly_trips |-> TRUE,
     hourly_trips |-> IF s.stop_id \in DOMAIN freq THEN freq[s.stop_id]
                      ELSE EmptyObject]

ExtractedStops(freq) ==
    LET kept == SelectSeq(ParsedStops, HasCoordinates)
    IN  [i \in 1..Len(kept) |-> StopWithFrequencies(freq, kept[i])]

\* the stops of the feed are written out and become the input of the app
ES_Combine ==
    /\ fpc = "returned"
    /\ ppc = "idle"
    /\ allStops' = ExtractedStops(stopFrequencies)
    /\ fpc' = "extracted"
    /\ ppc' = "start"
    /\ UNCHANGED <<trips, activeServiceIds, stopTimes, stopRouteDirectionHeadways,
                   stopFrequencies, selectedYear, frequentStopList,
                   futureStopsFile, frequentStops>>

-----------------------------------------------------------------------------
(* Inputs of processAllStopsData *)

MaxStops == 1
MaxFutureStops == 1

Years == {"2020", "2025", "2027"}
futureYears == {"2027"}

\* every hour 0..23 has b trips
Flat(b) == [k \in HourStrs |-> b]

\* every hour has b trips except hour i, which has v
Dip(b, i, v) == [k \in HourStrs |-> IF k = NumToString(i) THEN v ELSE b]

\* every hour has b trips except hour i, which is absent
Gap(b, i) == [k \in HourStrs \ {NumToString(i)} |-> b]

DipHours == {5, 6, 10, 18, 19}
DipTrips == {3, 4, 5}
BaseTrips == {6, 7}

Profiles ==
    { Dip(b, i, v) : b \in BaseTrips, i \in DipHours, v \in DipTrips }
        \cup { Gap(b, i) : b \in BaseTrips, i \in DipHours }
        \cup { Flat(4) }

StopRecords ==
    { [has_hourly_trips |-> TRUE, hourly_trips |-> p] : p \in Profiles }
        \cup { [has_hourly_trips |-> FALSE, hourly_trips |-> EmptyObject] }

StopIdOf(i) == NumToString(10 * i)

\* the stops of an all_stops_{year}.json, f[i] the profile part of stop i
AllStopsOf(f) ==
    [i \in DOMAIN f |->
        [id |-> StopIdOf(i), original_id |-> StopIdOf(i),
         has_hourly_trips |-> f[i].has_hourly_trips,
         hourly_trips |-> f[i].hourly_trips]]

FutureProfiles == { Flat(4), Dip(6, 18, 5), Dip(7, 6, 3), Gap(6, 10) }

\* a stop of future_stops_2027.json; enabled is one of true, false, absent
FutureRecords ==
    { [enabled |-> e, has_hourly_trips |-> TRUE, hourly_trips |-> p] :
          e \in {"true", "false", "absent"}, p \in FutureProfiles }
        \cup { [enabled |-> "true", has_hourly_trips |-> FALSE,
                hourly_trips |-> EmptyObject] }

FutureIdOf(i) == <<"f">> \o NumToString(i)

\* the stops of a future_stops_{year}.json
FutureFileOf(f) ==
    [i \in DOMAIN f |->
        [id |-> FutureIdOf(i), enabled |-> f[i].enabled,
         has_hourly_trips |-> f[i].has_hourly_trips,
         hourly_trips |-> f[i].hourly_trips]]

-----------------------------------------------------------------------------
(* processAllStopsData and addFutureStops *)

WindowStart == 6
WindowEnd == 18
MinTripsPerHour == 4
MinTotalTrips == 77

Window == WindowStart..WindowEnd

\* hourlyTrips[h.toString()] || 0
HourTrips(hourlyTrips, h) ==
    IF NumToString(h) \in DOMAIN hourlyTrips THEN hourlyTrips[NumToString(h)]
    ELSE 0

RECURSIVE WindowTotal(_, _)
\* total after the iterations h = WindowStart .. upTo
WindowTotal(hourlyTrips, upTo) ==
    IF upTo < WindowStart THEN 0
    ELSE WindowTotal(hourlyTrips, upTo - 1) + HourTrips(hourlyTrips, upTo)

\* the loop stopping one hour early
EveryHourServed_Until17(hourlyTrips) ==
    \A h \in WindowStart..(WindowEnd - 1) :
        ~(HourTrips(hourlyTrips, h) < MinTripsPerHour)

EveryHourServed(hourlyTrips) ==
    \A h \in Window : ~(HourTrips(hourlyTrips, h) < MinTripsPerHour)

\* total <= 77 rejected
TotalReached_Above(total) == ~(total <= MinTotalTrips)

TotalReached(total) == ~(total < MinTotalTrips)

\* the filter callback, lines 598-622
IsFrequentStop(stop) ==
    IF ~stop.has_hourly_trips THEN FALSE
    ELSE IF ~EveryHourServed(stop.hourly_trips) THEN FALSE
    ELSE TotalReached(WindowTotal(stop.hourly_trips, WindowEnd))

\* the map callback, lines 622-628
FrequentStopOf(s) ==
    [id |-> s.id, isFuture |-> FALSE, hourlyTrips |-> s.hourly_trips]

FilterFrequent(stops) ==
    LET kept == SelectSeq(stops, IsFrequentStop)
    IN  [i \in 1..Len(kept) |-> FrequentStopOf(kept[i])]

\* the filter callback of addFutureStops, lines 680-694
IsEnabledFutureStop(stop) ==
    IF stop.enabled = "false" THEN FALSE
    ELSE EveryHourServed(IF stop.has_hourly_trips THEN stop.hourly_trips
                         ELSE EmptyObject)

\* the map callback, lines 695-704
FutureStopOf(s) ==
    [id |-> s.id, isFuture |-> TRUE, hourlyTrips |-> s.hourly_trips]

enabledFutureStops(file) ==
    LET kept == SelectSeq(file, IsEnabledFutureStop)
    IN  [i \in 1..Len(kept) |-> FutureStopOf(kept[i])]

\* lines 595-631, up to the await of addFutureStops
PASD_Filter ==
    /\ ppc = "start"
    /\ frequentStopList' = FilterFrequent(allStops)
    /\ ppc' = "addFutureStops"
    /\ UNCHANGED <<selectedYear, allStops, futureStopsFile, frequentStops>>

\* lines 661-664 and 632-635: not a future year
PASD_NoFutureYear ==
    /\ ppc = "addFutureStops"
    /\ selectedYear \notin futureYears
    /\ frequentStops' = frequentStopList
    /\ ppc' = "done"
    /\ UNCHANGED <<selectedYear, allStops, frequentStopList, futureStopsFile>>

\* lines 670-674, 710-713 and 632-635: the fetch failed or was not ok
PASD_FutureUnavailable ==
    /\ ppc = "addFutureStops"
    /\ selectedYear \in futureYears
    /\ futureStopsFile' = "unavailable"
    /\ frequentStops' = frequentStopList
    /\ ppc' = "done"
    /\ UNCHANGED <<selectedYear, allStops, frequentStopList>>

\* lines 676-709 and 632-635: the future stops are appended
PASD_FutureLoaded ==
    /\ ppc = "addFutureStops"
    /\ selectedYear \in futureYears
    /\ \E n \in 0..MaxFutureStops : \E f \in [1..n -> FutureRecords] :
          /\ futureStopsFile' = "loaded"
          /\ frequentStops' = frequentStopList \o enabledFutureStops(FutureFileOf(f))
    /\ ppc' = "done"
    /\ UNCHANGED <<selectedYear, allStops, frequentStopList>>

processAllStopsData ==
    \/ PASD_Filter
    \/ PASD_NoFutureYear
    \/ PASD_FutureUnavailable
    \/ PASD_FutureLoaded

ClsIdle ==
    /\ ppc = "idle"
    /\ frequentStopList = <<>>
    /\ futureStopsFile = "none"
    /\ frequentStops = <<>>

-----------------------------------------------------------------------------
(* Geometry: polygons on a corridor of equal cells *)

MaxWalkStops == 3

\* cells are numbered west to east; cell c has its centre at longitude c
Corridor == 0..(3 * MaxWalkStops + 2)

\* width of a cell, in millimetres (500 m)
CellWidth == 500000

\* area of a cell, in units of 1000 square metres
CellArea == 31000

NullPolygon == [null |-> TRUE, cells |-> {}, vertices |-> 0]

Polygon(c) == [null |-> FALSE, cells |-> c, vertices |-> 0]

Abs(n) == IF n < 0 THEN 0 - n ELSE n

HALF_MILE_METERS == 804672  \* 804.672, in thousandths

\* HALF_MILE_METERS / 1000 kilometres, in millionths (that is, in millimetres)
CircleRadius == (HALF_MILE_METERS * 1000) \div 1000

CircleSteps == 32

\* turf.circle(center, radius, {steps, units: 'kilometers'})
turfCircle(center, radius, steps) ==
    [null |-> FALSE,
     cells |-> { c \in Corridor : Abs(c - center[1]) * CellWidth <= radius },
     vertices |-> steps]

\* turf.union(a, b)
turfUnion(a, b) == Polygon(a.cells \cup b.cells)

\* turf.intersect(a, b): null when the two share no area
turfIntersect(a, b) ==
    IF a.cells \cap b.cells = {} THEN NullPolygon
    ELSE Polygon(a.cells \cap b.cells)

\* turf.difference(a, b): null when nothing of a is left
turfDifference(a, b) ==
    IF a.cells \ b.cells = {} THEN NullPolygon
    ELSE Polygon(a.cells \ b.cells)

\* turf.area(p), in units of 1000 square metres
turfArea(p) == Cardinality(p.cells) * CellArea

\* turf.simplify(feature, {tolerance: 0.001}): the spits of the outline that
\* are narrower than the tolerance are cut off
turfSimplify(feature) == Polygon(feature.cells \ feature.slivers)

\* turf.booleanIntersects(a, b): shared area, or outlines that touch
turfBooleanIntersects(a, b) ==
    \E c \in a.cells : \E d \in b.cells : Abs(c - d) <= 1

\* turf.booleanWithin(a, b)
turfBooleanWithin(a, b) == a.cells \subseteq b.cells

\* (numerator / denominator * 100).toFixed(1), as the characters of the string
ToFixed1(numerator, denominator) ==
    LET tenths == (2000 * numerator + denominator) \div (2 * denominator)
    IN  NatToString(tenths \div 10) \o <<".">> \o NatToString(tenths % 10)

\* parseFloat(coveragePercent) > 100 for '0' and the strings of ToFixed1,
\* with or without a trailing '+'
Above100(coveragePercent) ==
    LET whole == LeadingDigits(coveragePercent)
        rest == Substring(coveragePercent, Len(whole), Len(coveragePercent))
        decimals == IF rest # <<>> /\ Head(rest) = "."
                    THEN LeadingDigits(Tail(rest)) ELSE <<>>
    IN  \/ DigitsValue(whole) > 100
        \/ DigitsValue(whole) = 100 /\ \E k \in 1..Len(decimals) : decimals[k] # "0"

-----------------------------------------------------------------------------
(* Inputs of the coverage engine *)

\* stop i of a stop list stands in the middle of cells 3i-2 .. 3i
WalkStop(i, future) ==
    [id |-> StopIdOf(i), stop_id |-> <<>>, isFuture |-> future,
     lon |-> 3 * i - 1, lat |-> 0]

\* a list of n stops; only the last one may be a future stop
StopListOf(n, future) ==
    [i \in 1..n |-> WalkStop(i, future /\ i = n)]

YearChars(year) ==
    IF year = "2020" THEN <<"2", "0", "2", "0">>
    ELSE IF year = "2025" THEN <<"2", "0", "2", "5">>
    ELSE <<"2", "0", "2", "7">>

SoundTransitInfix == <<"_", "s", "o", "u", "n", "d", "t", "r", "a", "n",
                       "s", "i", "t", "_">>

MetroInfix == <<"_", "m", "e", "t", "r", "o", "_">>

\* const yearsToLoad = selectedYear === '2027' ? ['2025', '2027'] : [selectedYear]
yearsToLoad(year) == IF year = "2027" THEN <<"2025", "2027">> ELSE <<year>>

\* the stop_id keys an isochrone file may hold for a stop id
IsoKeysOf(year, id) ==
    LET first == yearsToLoad(year)[1]
        base == << YearChars(first) \o SoundTransitInfix \o id,
                   YearChars(first) \o MetroInfix \o id,
                   id >>
    IN  IF year = "2027"
        THEN base \o << YearChars("2027") \o SoundTransitInfix \o id,
                        YearChars("2027") \o MetroInfix \o id >>
        ELSE base

\* the contour stored under the j-th key of the stop at longitude lon
ContourOf(lon, j) ==
    Polygon(IF j = 1 THEN {lon - 1}
            ELSE IF j = 2 THEN {lon}
            ELSE IF j = 3 THEN {lon - 1, lon}
            ELSE IF j = 4 THEN {lon, lon + 1}
            ELSE {lon + 1})

\* what the files hold under a key: nothing, a record whose 10-minute
\* contour is null, or a record with a contour
IsoEntryKinds(j) ==
    IF j <= 3 THEN {"absent", "no10min", "contour"} ELSE {"absent", "contour"}

IsoChoices(year) ==
    { f \in [1..(IF year = "2027" THEN 5 ELSE 3) ->
                {"absent", "no10min", "contour"}] :
        \A j \in DOMAIN f : f[j] \in IsoEntryKinds(j) }

\* the Map built by loadIsochrones for the last stop of an n-stop list
IsochronesOf(year, n, f) ==
    LET keys == IsoKeysOf(year, StopIdOf(n))
        held == { j \in DOMAIN f : f[j] # "absent" }
    IN  [k \in { keys[j] : j \in held } |->
            LET j == CHOOSE j \in held : keys[j] = k
            IN  [stop_id |-> k,
                 isochrone_10min |-> IF f[j] = "contour"
                                     THEN ContourOf(3 * n - 1, j)
                                     ELSE NullPolygon]]

\* const [isochrones, setIsochrones] = useState(new Map())
EmptyIsochrones == [k \in {} |-> NullPolygon]

\* seattle-city-limits.geojson: a FeatureCollection
BoundaryOf(features) == [null |-> FALSE, features |-> features]

NullBoundary == [null |-> TRUE, features |-> <<>>]

Feature(c, s) == [null |-> FALSE, cells |-> c, vertices |-> 0, slivers |-> s]

\* the city covers the west of the corridor, one cell of it only by a spit
CityFeature == Feature(0..4, {4})

\* a region east of every walkshed of the corridor
FarFeature == Feature({3 * MaxWalkStops + 2}, {})

Boundaries ==
    { NullBoundary, BoundaryOf(<<CityFeature>>), BoundaryOf(<<FarFeature>>),
      BoundaryOf(<<>>) }

-----------------------------------------------------------------------------
(* findIsochroneForStop *)

\* const stopId = stop.id || stop.stop_id
StopKeyId(stop) == IF stop.id # <<>> THEN stop.id ELSE stop.stop_id

isochroneYear(stop, year) ==
    IF year = "2027" /\ ~stop.isFuture THEN "2025" ELSE year

\* Metro tried before Sound Transit
possibleKeys_MetroFirst(stop, year) ==
    << YearChars(isochroneYear(stop, year)) \o MetroInfix \o StopKeyId(stop),
       YearChars(isochroneYear(stop, year)) \o SoundTransitInfix
           \o StopKeyId(stop),
       StopKeyId(stop) >>

possibleKeys(stop, year) ==
    << YearChars(isochroneYear(stop, year)) \o SoundTransitInfix
           \o StopKeyId(stop),
       YearChars(isochroneYear(stop, year)) \o MetroInfix \o StopKeyId(stop),
       StopKeyId(stop) >>

\* the for loop over possibleKeys; null when no key has a 10-minute contour
RECURSIVE FirstContour(_, _)
FirstContour(keys, isos) ==
    IF keys = <<>> THEN NullPolygon
    ELSE IF Head(keys) \in DOMAIN isos
            /\ ~isos[Head(keys)].isochrone_10min.null
         THEN isos[Head(keys)].isochrone_10min
         ELSE FirstContour(Tail(keys), isos)

findIsochroneForStop(stop, year, isos) ==
    FirstContour(possibleKeys(stop, year), isos)

-----------------------------------------------------------------------------
(* calculateWalkshedCoverage *)

\* the callback of stopList.map
WalkshedOf(stop, year, isos) ==
    LET isochronePolygon == findIsochroneForStop(stop, year, isos)
    IN  IF ~isochronePolygon.null THEN isochronePolygon
        ELSE turfCircle(<<stop.lon, stop.lat>>, CircleRadius, CircleSteps)

NeedsCircle(stops, year, isos) ==
    \E i \in 1..Len(stops) : findIsochroneForStop(stops[i], year, isos).null

seattleAreaSqMeters == 217000000

\* Math.PI * Math.pow(HALF_MILE_METERS, 2) = 2034171.6 square metres, in
\* units of 1000 square metres
CircleAreaEstimate == 2034

CoverageResult(merged, outOfBounds, percent) ==
    [thrown |-> FALSE, mergedPolygon |-> merged,
     mergedPolygonOutOfBounds |-> outOfBounds, coveragePercent |-> percent]

NoResult == [thrown |-> FALSE, mergedPolygon |-> NullPolygon,
             mergedPolygonOutOfBounds |-> NullPolygon,
             coveragePercent |-> <<>>]

\* the early return
EmptyCoverage == CoverageResult(NullPolygon, NullPolygon, <<"0">>)

\* an outer catch that throws the error again
OuterCatch_Rethrow(n) ==
    [thrown |-> TRUE, mergedPolygon |-> NullPolygon,
     mergedPolygonOutOfBounds |-> NullPolygon, coveragePercent |-> <<>>]

\* the outer catch
OuterCatch(n) ==
    CoverageResult(NullPolygon, NullPolygon,
                   ToFixed1(n * CircleAreaEstimate, seattleAreaSqMeters \div 1000)
                       \o <<"+">>)

\* a failing pair replaces the accumulator by the walkshed
UnionOrKeep_Restart(acc, walkshed, raises) ==
    IF raises THEN walkshed ELSE turfUnion(acc, walkshed)

\* try { union = turf.union(union, walksheds[i]) } catch { continue }
UnionOrKeep(acc, walkshed, raises) ==
    IF raises THEN acc ELSE turfUnion(acc, walkshed)

\* the coverage against the built-in area of Seattle
FallbackPercent(u) == ToFixed1(turfArea(u), seattleAreaSqMeters \div 1000)

\* the inner catch: raised are the primitives that raised so far
InnerCatch(u, outOfBounds, n, raised, fails) ==
    IF "areaUnion" \in fails
    THEN [result |-> OuterCatch(n), raised |-> raised \cup {"areaUnion"}]
    ELSE [result |-> CoverageResult(u, outOfBounds, FallbackPercent(u)),
          raised |-> raised]

\* the branch without intersection, leaving the difference in place
NoIntersection_KeepDiff(u, d) == CoverageResult(NullPolygon, d, <<"0">>)

\* the branch without intersection
NoIntersection(u, d) == CoverageResult(NullPolygon, u, <<"0">>)

\* the coverage against the area of the boundary itself
NoBoundary_BoundaryArea(u, n, fails) ==
    [result |-> CoverageResult(u, NullPolygon,
                               ToFixed1(turfArea(u), turfArea(CityFeature))),
     raised |-> {}]

\* the branch of a missing boundary
NoBoundary(u, n, fails) ==
    IF "areaUnion" \in fails
    THEN [result |-> OuterCatch(n), raised |-> {"areaUnion"}]
    ELSE [result |-> CoverageResult(u, NullPolygon, FallbackPercent(u)),
          raised |-> {}]

ClipOps == {"areaBoundary", "simplify", "intersect", "difference",
            "areaClipped", "areaUnion"}

\* the branch of a supplied boundary b; fails are the primitives that raise
\* when they are called
Clip(u, b, n, fails) ==
    IF b.features = <<>> \/ "areaBoundary" \in fails
    THEN [result |-> OuterCatch(n), raised |-> {"areaBoundary"},
          clipped |-> NullPolygon, diff |-> NullPolygon]
    ELSE IF "simplify" \in fails
    THEN InnerCatch(u, NullPolygon, n, {"simplify"}, fails)
            @@ [clipped |-> NullPolygon, diff |-> NullPolygon]
    ELSE
      LET seattleBoundaryArea == turfArea(b.features[1])
          simplifiedBoundary == turfSimplify(b.features[1])
          c == IF "intersect" \in fails THEN NullPolygon
               ELSE turfIntersect(u, simplifiedBoundary)
          d == IF "difference" \in fails THEN NullPolygon
               ELSE turfDifference(u, simplifiedBoundary)
          raised == fails \cap {"intersect", "difference"}
      IN  IF c.null
          THEN [result |-> NoIntersection(u, d), raised |-> raised,
                clipped |-> c, diff |-> d]
          ELSE IF "areaClipped" \in fails
          THEN InnerCatch(u, d, n, raised \cup {"areaClipped"}, fails)
                  @@ [clipped |-> c, diff |-> d]
          ELSE [result |-> CoverageResult(c, d,
                               ToFixed1(turfArea(c), seattleBoundaryArea)),
                raised |-> raised, clipped |-> c, diff |-> d]

CWC_EarlyReturn ==
    /\ cpc = "start"
    /\ ~turfLoaded \/ Len(stopList) = 0
    /\ result' = EmptyCoverage
    /\ cpc' = "returned"
    /\ UNCHANGED <<turfLoaded, isochrones, stopList, boundary, walksheds,
                   union, unionIdx, unionRaised, clipRaised, clipped, diff>>

\* stopList.map and the start of the union loop
CWC_Walksheds ==
    /\ cpc = "start"
    /\ turfLoaded /\ Len(stopList) > 0
    /\ \E circleRaises \in BOOLEAN :
         /\ circleRaises => NeedsCircle(stopList, selectedYear, isochrones)
         /\ IF circleRaises
            THEN /\ result' = OuterCatch(Len(stopList))
                 /\ clipRaised' = {"circle"}
                 /\ cpc' = "returned"
                 /\ UNCHANGED <<walksheds, union, unionIdx>>
            ELSE /\ walksheds' = [i \in 1..Len(stopList) |->
                        WalkshedOf(stopList[i], selectedYear, isochrones)]
                 /\ union' = walksheds'[1]
                 /\ unionIdx' = 1
                 /\ cpc' = "union"
                 /\ UNCHANGED <<result, clipRaised>>
    /\ UNCHANGED <<turfLoaded, isochrones, stopList, boundary, unionRaised,
                   clipped, diff>>

\* one turn of the for loop
CWC_Union ==
    /\ cpc = "union"
    /\ unionIdx < Len(walksheds)
    /\ \E raises \in BOOLEAN :
         /\ union' = UnionOrKeep(union, walksheds[unionIdx + 1], raises)
         /\ unionRaised' = IF raises THEN unionRaised \cup {unionIdx}
                           ELSE unionRaised
    /\ unionIdx' = unionIdx + 1
    /\ UNCHANGED <<turfLoaded, isochrones, stopList, boundary, cpc, walksheds,
                   clipRaised, clipped, diff, result>>

\* else { mergedPolygon = union; ... }
CWC_NoBoundary ==
    /\ cpc = "union"
    /\ unionIdx = Len(walksheds)
    /\ boundary.null
    /\ \E fails \in SUBSET {"areaUnion"} :
         LET out == NoBoundary(union, Len(stopList), fails)
         IN  /\ result' = out.result
             /\ clipRaised' = out.raised
    /\ cpc' = "returned"
    /\ UNCHANGED <<turfLoaded, isochrones, stopList, boundary, walksheds,
                   union, unionIdx, unionRaised, clipped, diff>>

\* if (boundary) { ... }
CWC_Clip ==
    /\ cpc = "union"
    /\ unionIdx = Len(walksheds)
    /\ ~boundary.null
    /\ \E fails \in SUBSET ClipOps :
         LET out == Clip(union, boundary, Len(stopList), fails)
         IN  /\ result' = out.result
             /\ clipRaised' = out.raised
             /\ clipped' = out.clipped
             /\ diff' = out.diff
    /\ cpc' = "returned"
    /\ UNCHANGED <<turfLoaded, isochrones, stopList, boundary, walksheds,
                   union, unionIdx, unionRaised>>

calculateWalkshedCoverage ==
    CWC_EarlyReturn \/ CWC_Walksheds \/ CWC_Union \/ CWC_NoBoundary \/ CWC_Clip

\* no call of calculateWalkshedCoverage is under way
CwcIdle ==
    /\ isochrones = EmptyIsochrones
    /\ stopList = <<>>
    /\ boundary = NullBoundary
    /\ cpc = "idle"
    /\ walksheds = <<>>
    /\ union = NullPolygon
    /\ unionIdx = 0
    /\ unionRaised = {}
    /\ clipRaised = {}
    /\ clipped = NullPolygon
    /\ diff = NullPolygon
    /\ result = NoResult

CovIdle == turfLoaded = FALSE /\ CwcIdle

-----------------------------------------------------------------------------
(* Inputs of loadCensusData *)

MaxBlocks == 2

\* a feature of KING_COUNTY_BLOCK_2020_POPULATION.geojson; TOT_POP is <<>>
\* when the property is missing
Block(c, place, pop) ==
    [null |-> FALSE, cells |-> c, vertices |-> 0,
     properties |-> [Place |-> place, TOT_POP |-> pop]]

\* blocks inside, across, beside and away from the walkshed polygons, in
\* and out of Seattle, with and without inhabitants
BlockKinds ==
    << Block({1}, "Seattle", <<"9">>),
       Block({3, 4}, "Seattle", <<"8">>),
       Block({4}, "Seattle", <<"5">>),
       Block({6}, "Seattle", <<"7">>),
       Block({2}, "Kent", <<"9">>),
       Block({2}, "Seattle", <<"0">>),
       Block({3, 4}, "Seattle", <<>>),
       Block({2, 3, 4}, "Seattle", <<"1", "2">>) >>

BlocksOf(f) == [i \in DOMAIN f |-> BlockKinds[f[i]]]

\* mergedPolygonRef.current when the button is shown
WalkshedPolygons == { Polygon({1, 2, 3}), Polygon({0, 1, 2, 3, 4, 5}) }

-----------------------------------------------------------------------------
(* loadCensusData *)

seattlePopulation == 737015

\* populationInWalkshed and the credits are kept in sixths of an inhabitant:
\* a block has one, two or three cells, so population * ratio is exact
Sixths == 6

\* parseInt(block.properties.TOT_POP || '0')
PopulationOf(block) ==
    ParseInt(IF block.properties.TOT_POP # <<>> THEN block.properties.TOT_POP
             ELSE <<"0">>)

\* only the place is tested
SkippedBlock_PlaceOnly(block) == block.properties.Place # "Seattle"

\* if (block.properties.Place !== 'Seattle' || population < 1) return
SkippedBlock(block) ==
    block.properties.Place # "Seattle" \/ PopulationOf(block) < 1

\* the ratio taken upside down
PartialCredit_Inverse(population, intersectionArea, blockArea) ==
    (population * Sixths * blockArea) \div intersectionArea

\* population * (intersectionArea / blockArea)
PartialCredit(population, intersectionArea, blockArea) ==
    (population * Sixths * intersectionArea) \div blockArea

\* populationInWalkshed += population
FullCredit(population) == population * Sixths

BlockOps == {"booleanIntersects", "booleanWithin", "areaBlock", "intersect",
             "areaIntersection"}

\* catch (err) { console.debug(...) }
BlockCaught(op) ==
    [credit |-> 0, counted |-> FALSE, raised |-> {op}, path |-> "caught",
     thrown |-> FALSE]

\* the callback of forEach for one block; fails are the primitives that
\* raise when they are called
BlockStep(block, polygon, fails) ==
    LET population == PopulationOf(block)
    IN  IF SkippedBlock(block)
        THEN [credit |-> 0, counted |-> FALSE, raised |-> {},
              path |-> "skipped", thrown |-> FALSE]
        ELSE IF "booleanIntersects" \in fails
        THEN BlockCaught("booleanIntersects")
        ELSE IF ~turfBooleanIntersects(block, polygon)
        THEN [credit |-> 0, counted |-> FALSE, raised |-> {},
              path |-> "disjoint", thrown |-> FALSE]
        ELSE IF "booleanWithin" \in fails
        THEN BlockCaught("booleanWithin")
        ELSE IF turfBooleanWithin(block, polygon)
        THEN [credit |-> FullCredit(population), counted |-> TRUE,
              raised |-> {}, path |-> "within", thrown |-> FALSE]
        ELSE IF "areaBlock" \in fails
        THEN BlockCaught("areaBlock")
        ELSE IF "intersect" \in fails
        THEN BlockCaught("intersect")
        ELSE
          LET intersection == turfIntersect(block, polygon)
          IN  IF intersection.null
              THEN [credit |-> FullCredit(population), counted |-> TRUE,
                    raised |-> {}, path |-> "fallback", thrown |-> FALSE]
              ELSE IF "areaIntersection" \in fails
              THEN BlockCaught("areaIntersection")
              ELSE [credit |-> PartialCredit(population,
                                   turfArea(intersection), turfArea(block)),
                    counted |-> TRUE, raised |-> {}, path |-> "partial",
                    thrown |-> FALSE]

\* populationInWalkshed.toLocaleString() for totals below 1000
ToLocaleString(sixths) ==
    LET whole == sixths \div Sixths
        thousandths == (2000 * (sixths % Sixths) + Sixths) \div (2 * Sixths)
        digits == IF thousandths % 100 = 0
                  THEN NatToString(thousandths \div 100)
                  ELSE NatToString(thousandths)
    IN  IF thousandths = 0 THEN NatToString(whole)
        ELSE NatToString(whole) \o <<".">> \o digits

NoCensusData == [set |-> FALSE, error |-> FALSE, population |-> <<>>,
                 populationPercent |-> <<>>, blocksCount |-> 0]

CensusError == [set |-> TRUE, error |-> TRUE, population |-> <<>>,
                populationPercent |-> <<>>, blocksCount |-> 0]

CensusResult(total, count) ==
    [set |-> TRUE, error |-> FALSE, population |-> ToLocaleString(total),
     populationPercent |-> ToFixed1(total, Sixths * seattlePopulation),
     blocksCount |-> count]

\* if (!turfLoaded || !window.turf) return
LCD_NotLoaded ==
    /\ bpc = "start"
    /\ ~turfLoaded
    /\ bpc' = "done"
    /\ UNCHANGED <<walkshedPolygon, censusFetch, blockGeometries, blockIdx,
                   blockCalls, populationInWalkshed,
                   blocksInWalkshed, censusData, loadingCensus, censusBlocks>>

\* setLoadingCensus(true) and the fetch
LCD_Begin ==
    /\ bpc = "start"
    /\ turfLoaded
    /\ loadingCensus' = TRUE
    /\ bpc' = "fetching"
    /\ UNCHANGED <<walkshedPolygon, censusFetch, blockGeometries, blockIdx,
                   blockCalls, populationInWalkshed,
                   blocksInWalkshed, censusData, censusBlocks>>

\* the response is not ok, or fetch or response.json() rejects
LCD_FetchFailed ==
    /\ bpc = "fetching"
    /\ censusFetch' \in {"notok", "rejected"}
    /\ censusData' = CensusError
    /\ loadingCensus' = FALSE
    /\ bpc' = "done"
    /\ UNCHANGED <<walkshedPolygon, blockGeometries, blockIdx, blockCalls, populationInWalkshed, blocksInWalkshed,
                   censusBlocks>>

\* const blockGeometries = await censusResponse.json()
LCD_Fetched ==
    /\ bpc = "fetching"
    /\ censusFetch' = "ok"
    /\ \E n \in 0..MaxBlocks : \E f \in [1..n -> DOMAIN BlockKinds] :
          blockGeometries' = BlocksOf(f)
    /\ populationInWalkshed' = 0
    /\ blocksInWalkshed' = 0
    /\ blockIdx' = 0
    /\ bpc' = "blocks"
    /\ UNCHANGED <<walkshedPolygon, blockCalls, censusData,
                   loadingCensus, censusBlocks>>

\* one call of the forEach callback
LCD_Block ==
    /\ bpc = "blocks"
    /\ blockIdx < Len(blockGeometries)
    /\ \E fails \in SUBSET BlockOps :
         LET step == BlockStep(blockGeometries[blockIdx + 1],
                               walkshedPolygon, fails)
         IN  /\ populationInWalkshed' = populationInWalkshed + step.credit
             /\ blocksInWalkshed' =
                    blocksInWalkshed + (IF step.counted THEN 1 ELSE 0)
             /\ blockCalls' = Append(blockCalls, step)
    /\ blockIdx' = blockIdx + 1
    /\ UNCHANGED <<walkshedPolygon, censusFetch, blockGeometries, bpc,
                   censusData, loadingCensus, censusBlocks>>

\* setCensusBlocks, setCensusData and the finally clause
LCD_Publish ==
    /\ bpc = "blocks"
    /\ blockIdx = Len(blockGeometries)
    /\ censusBlocks' = [set |-> TRUE, features |-> blockGeometries]
    /\ censusData' = CensusResult(populationInWalkshed, blocksInWalkshed)
    /\ loadingCensus' = FALSE
    /\ bpc' = "done"
    /\ UNCHANGED <<walkshedPolygon, censusFetch, blockGeometries, blockIdx,
                   blockCalls, populationInWalkshed,
                   blocksInWalkshed>>

loadCensusData ==
    \/ LCD_NotLoaded \/ LCD_Begin \/ LCD_FetchFailed \/ LCD_Fetched
    \/ LCD_Block \/ LCD_Publish

CenIdle ==
    /\ walkshedPolygon = NullPolygon
    /\ censusFetch = "none"
    /\ blockGeometries = <<>>
    /\ bpc = "idle"
    /\ blockIdx = 0
    /\ blockCalls = <<>>
    /\ populationInWalkshed = 0
    /\ blocksInWalkshed = 0
    /\ censusData = NoCensusData
    /\ loadingCensus = FALSE
    /\ censusBlocks = [set |-> FALSE, features |-> <<>>]

-----------------------------------------------------------------------------
(* The effects of the component: loading the geometry library, the         *)
(* boundary, the stops and the isochrones, and recalculating the walksheds *)

\* the frequent and the infrequent profile of the stop files
AppProfiles == { Flat(6), Flat(3) }

\* an all_stops_{year}.json whose stop i stands at longitude 3i - 1
AppStopsOf(f) ==
    [i \in DOMAIN f |->
        [id |-> StopIdOf(i), original_id |-> StopIdOf(i),
         has_hourly_trips |-> TRUE, hourly_trips |-> f[i],
         lon |-> 3 * i - 1, lat |-> 0]]

\* the map callback of processAllStopsData, coordinates included
LocatedStopOf(s) ==
    [stop_id |-> <<>>, lon |-> s.lon, lat |-> s.lat] @@ FrequentStopOf(s)

LocatedFrequent(stops) ==
    LET kept == SelectSeq(stops, IsFrequentStop)
    IN  [i \in 1..Len(kept) |-> LocatedStopOf(kept[i])]

\* the union loop when no turf.union call raises
RECURSIVE UnionFrom(_, _)
UnionFrom(acc, rest) ==
    IF rest = <<>> THEN acc
    ELSE UnionFrom(UnionOrKeep(acc, Head(rest), FALSE), Tail(rest))

\* calculateWalkshedCoverage as one call, for primitives that raise only on
\* a missing feature
CoverageOf(stops, b, year, isos, loaded) ==
    IF ~loaded \/ Len(stops) = 0 THEN EmptyCoverage
    ELSE LET ws == [i \in 1..Len(stops) |-> WalkshedOf(stops[i], year, isos)]
             u == UnionFrom(ws[1], Tail(ws))
         IN  IF b.null THEN NoBoundary(u, Len(stops), {}).result
             ELSE Clip(u, b, Len(stops), {}).result

NoStats == [set |-> FALSE, stopCount |-> 0, coveragePercent |-> <<>>]

\* setStats({ stopCount, coveragePercent: parseFloat(...) > 100 ? '100+' : ... })
StatsOf(count, coveragePercent) ==
    [set |-> TRUE, stopCount |-> count,
     coveragePercent |-> IF Above100(coveragePercent)
                         THEN <<"1", "0", "0", "+">> ELSE coveragePercent]

\* what the component shows: stats and the two refs
Published(s, merged, outOfBounds) ==
    [stats |-> s, mergedPolygonRef |-> merged,
     mergedPolygonOutOfBoundsRef |-> outOfBounds]

PublishedOf(count, res) ==
    Published(StatsOf(count, res.coveragePercent), res.mergedPolygon,
              res.mergedPolygonOutOfBounds)

\* recalculateWalksheds in a render with the given state
recalculateWalksheds(sb, fs, isos, loaded, year, shown) ==
    IF Len(fs) = 0 \/ sb.null THEN shown
    ELSE PublishedOf(Len(fs), CoverageOf(fs, sb, year, isos, loaded))

\* the effect with the dependencies [seattleBoundary, frequentStops,
\* isochrones]: changed tells whether the render changed one of them
RecalcEffect(sb, fs, isos, loaded, year, shown, changed) ==
    IF changed /\ ~sb.null /\ Len(fs) > 0 /\ DOMAIN isos # {} /\ loaded
    THEN recalculateWalksheds(sb, fs, isos, loaded, year, shown)
    ELSE shown

Shown == Published(stats, mergedPolygonRef, mergedPolygonOutOfBoundsRef)

\* the state the functions of the first render see
MountClosure ==
    [phase |-> "fetching", turfLoaded |-> FALSE,
     seattleBoundary |-> NullBoundary, isochrones |-> EmptyIsochrones,
     selectedYear |-> "2020"]

\* turfScript.onload = () => setTurfLoaded(true)
TurfOnload ==
    /\ turfScript = "loading"
    /\ turfScript' = "loaded"
    /\ turfLoaded' = TRUE
    /\ LET shown == RecalcEffect(seattleBoundary, frequentStops, isochrones,
                                 TRUE, selectedYear, Shown, FALSE)
       IN  /\ stats' = shown.stats
           /\ mergedPolygonRef' = shown.mergedPolygonRef
           /\ mergedPolygonOutOfBoundsRef' = shown.mergedPolygonOutOfBoundsRef
    /\ UNCHANGED <<seattleBoundary, boundaryLoad, stopsLoad, isoLoad,
                   isochrones, frequentStops>>

\* loadSeattleBoundary: the response is ok
BoundaryLoaded ==
    /\ boundaryLoad = "fetching"
    /\ boundaryLoad' = "done"
    /\ \E b \in Boundaries \ {NullBoundary} :
         /\ seattleBoundary' = b
         /\ LET shown == RecalcEffect(b, frequentStops, isochrones,
                                      turfLoaded, selectedYear, Shown, TRUE)
            IN  /\ stats' = shown.stats
                /\ mergedPolygonRef' = shown.mergedPolygonRef
                /\ mergedPolygonOutOfBoundsRef' =
                       shown.mergedPolygonOutOfBoundsRef
    /\ UNCHANGED <<turfScript, stopsLoad, isoLoad, turfLoaded, isochrones,
                   frequentStops>>

\* loadSeattleBoundary: the response is not ok, or the fetch rejects
BoundaryFailed ==
    /\ boundaryLoad = "fetching"
    /\ boundaryLoad' = "failed"
    /\ UNCHANGED <<seattleBoundary, stats, mergedPolygonRef,
                   mergedPolygonOutOfBoundsRef, turfScript, stopsLoad,
                   isoLoad, turfLoaded, isochrones, frequentStops>>

\* loadUploadedFile and processAllStopsData with the state of the render
\* that started the load, then the effect of the next render
StopsLoaded ==
    /\ stopsLoad.phase = "fetching"
    /\ stopsLoad' = [stopsLoad EXCEPT !.phase = "done"]
    /\ \E n \in 0..MaxWalkStops : \E f \in [1..n -> AppProfiles] :
         LET finalStopList == LocatedFrequent(AppStopsOf(f))
             res == CoverageOf(finalStopList, stopsLoad.seattleBoundary,
                               stopsLoad.selectedYear, stopsLoad.isochrones,
                               stopsLoad.turfLoaded)
             shown == RecalcEffect(seattleBoundary, finalStopList, isochrones,
                                   turfLoaded, selectedYear,
                                   PublishedOf(Len(finalStopList), res), TRUE)
         IN  /\ frequentStops' = finalStopList
             /\ stats' = shown.stats
             /\ mergedPolygonRef' = shown.mergedPolygonRef
             /\ mergedPolygonOutOfBoundsRef' =
                    shown.mergedPolygonOutOfBoundsRef
    /\ UNCHANGED <<seattleBoundary, turfScript, boundaryLoad, isoLoad,
                   turfLoaded, isochrones>>

\* loadUploadedFile: the response is not ok, or the fetch rejects
StopsFailed ==
    /\ stopsLoad.phase = "fetching"
    /\ stopsLoad' = [stopsLoad EXCEPT !.phase = "failed"]
    /\ UNCHANGED <<seattleBoundary, stats, mergedPolygonRef,
                   mergedPolygonOutOfBoundsRef, turfScript, boundaryLoad,
                   isoLoad, turfLoaded, isochrones, frequentStops>>

\* loadIsochrones: setIsochrones(isoMap), a new Map whatever the file gave
IsochronesLoaded ==
    /\ isoLoad = "fetching"
    /\ isoLoad' = "done"
    /\ \E f \in IsoChoices(selectedYear) :
         LET isoMap == IsochronesOf(selectedYear, 1, f)
             shown == RecalcEffect(seattleBoundary, frequentStops, isoMap,
                                   turfLoaded, selectedYear, Shown, TRUE)
         IN  /\ isochrones' = isoMap
             /\ stats' = shown.stats
             /\ mergedPolygonRef' = shown.mergedPolygonRef
             /\ mergedPolygonOutOfBoundsRef' =
                    shown.mergedPolygonOutOfBoundsRef
    /\ UNCHANGED <<seattleBoundary, turfScript, boundaryLoad, stopsLoad,
                   turfLoaded, frequentStops>>

\* the statements after the call in processAllStopsData and in
\* recalculateWalksheds: setStats and the two refs; the call is over
StoreCoverage ==
    /\ cpc = "returned"
    /\ ~result.thrown
    /\ LET shown == PublishedOf(Len(stopList), result)
       IN  /\ stats' = shown.stats
           /\ mergedPolygonRef' = shown.mergedPolygonRef
           /\ mergedPolygonOutOfBoundsRef' = shown.mergedPolygonOutOfBoundsRef
    /\ stopList' = <<>>
    /\ boundary' = NullBoundary
    /\ cpc' = "idle"
    /\ walksheds' = <<>>
    /\ union' = NullPolygon
    /\ unionIdx' = 0
    /\ unionRaised' = {}
    /\ clipRaised' = {}
    /\ clipped' = NullPolygon
    /\ diff' = NullPolygon
    /\ result' = NoResult
    /\ UNCHANGED <<turfLoaded, isochrones, seattleBoundary, turfScript,
                   boundaryLoad, stopsLoad, isoLoad>>

\* {!censusData && !loadingCensus && mergedPolygonRef.current && <button
\* onClick={() => loadCensusData(mergedPolygonRef.current)}>}
CensusButton ==
    /\ cpc = "idle"
    /\ bpc = "idle"
    /\ ~censusData.set /\ ~loadingCensus /\ ~mergedPolygonRef.null
    /\ walkshedPolygon' = mergedPolygonRef
    /\ bpc' = "start"
    /\ UNCHANGED <<censusFetch, blockGeometries, blockIdx, blockCalls,
                   populationInWalkshed, blocksInWalkshed, censusData,
                   loadingCensus, censusBlocks>>

AppIdle ==
    /\ seattleBoundary = NullBoundary
    /\ stats = NoStats
    /\ mergedPolygonRef = NullPolygon
    /\ mergedPolygonOutOfBoundsRef = NullPolygon
    /\ turfScript = "none"
    /\ boundaryLoad = "none"
    /\ stopsLoad = [MountClosure EXCEPT !.phase = "none"]
    /\ isoLoad = "none"

\* no year was selected and no load is in flight
SesIdle == pendingLoads = <<>> /\ yearChanges = 0

\* the isochrone script is not running
GenIdle ==
    /\ genStops = <<>>
    /\ existingIsochrones = <<>>
    /\ genIsochrones = <<>>
    /\ stopsToProcess = <<>>
    /\ genIdx = 0
    /\ genRequests = <<>>
    /\ genFailed = {}
    /\ genRuns = 0
    /\ lastRun = [requested |-> <<>>, missed |-> {}]
    /\ genpc = "idle"

ExtIdle == SesIdle /\ GenIdle

GeoIdle == CovIdle /\ CenIdle /\ AppIdle /\ ExtIdle

-----------------------------------------------------------------------------
(* Specifications *)

InitCalendar ==
    /\ \E n \in 0..MaxEntries : \E f \in CalendarChoices(n) :
          calendar = CalendarOf(f)
    /\ CalIdle
    /\ FreqIdle
    /\ ClsIdle
    /\ selectedYear = "2020"
    /\ allStops = <<>>
    /\ GeoIdle

NextCalendar ==
    \/ GRS_ReturnEmpty /\ UNCHANGED <<freqVars, clsVars, geoVars>>
    \/ GRS_ParseLatest /\ UNCHANGED <<freqVars, clsVars, geoVars>>
    \/ GRS_Advance /\ UNCHANGED <<freqVars, clsVars, geoVars>>
    \/ GRS_Return /\ UNCHANGED <<freqVars, clsVars, geoVars>>

SpecCalendar == InitCalendar /\ [][NextCalendar]_vars

\* start dates that are no eight digits: cut after the year, letters for
\* the month
D2025 == <<"2", "0", "2", "5">>
D2025xx01 == <<"2", "0", "2", "5", "x", "x", "0", "1">>

\* a calendar.txt whose rows have no end date and any start date
StartDateStrs == {<<>>, D20240229, D2025, D2025xx01}

InitStartDates ==
    /\ \E n \in 0..MaxEntries :
         \E f \in [1..n -> WeekPatterns \X StartDateStrs \X {<<>>}] :
            calendar = CalendarOf(f)
    /\ CalIdle
    /\ FreqIdle
    /\ ClsIdle
    /\ selectedYear = "2020"
    /\ allStops = <<>>
    /\ GeoIdle

SpecStartDates == InitStartDates /\ [][NextCalendar]_vars

InitFreq ==
    /\ calendar = <<>>
    /\ CalIdle
    /\ \E f \in TripChoices : trips = TripTableOf(f)
    /\ activeServiceIds \in ActiveSets
    /\ stopTimes = {}
    /\ fpc = "start"
    /\ stopRouteDirectionHeadways = <<>>
    /\ stopFrequencies = EmptyMap
    /\ ClsIdle
    /\ selectedYear = "2025"
    /\ allStops = <<>>
    /\ GeoIdle

\* the feed of dataset 2025, extracted and then viewed as year 2025
NextFreq ==
    \/ CSF_NoActiveService /\ UNCHANGED <<calVars, clsVars, geoVars>>
    \/ CSF_Begin /\ UNCHANGED <<calVars, clsVars, geoVars>>
    \/ CSF_StopTime /\ UNCHANGED <<calVars, clsVars, geoVars>>
    \/ CSF_Aggregate /\ UNCHANGED <<calVars, clsVars, geoVars>>
    \/ ES_Combine /\ UNCHANGED <<calVars, geoVars>>
    \/ PASD_Filter /\ UNCHANGED <<calVars, freqVars, geoVars>>
    \/ PASD_NoFutureYear /\ UNCHANGED <<calVars, freqVars, geoVars>>

SpecFreq == InitFreq /\ [][NextFreq]_vars

InitClassify ==
    /\ calendar = <<>>
    /\ CalIdle
    /\ FreqIdle
    /\ selectedYear \in Years
    /\ \E n \in 0..MaxStops : \E f \in [1..n -> StopRecords] :
          allStops = AllStopsOf(f)
    /\ ppc = "start"
    /\ frequentStopList = <<>>
    /\ futureStopsFile = "none"
    /\ frequentStops = <<>>
    /\ GeoIdle

NextClassify ==
    \/ PASD_Filter /\ UNCHANGED <<calVars, freqVars, geoVars>>
    \/ PASD_NoFutureYear /\ UNCHANGED <<calVars, freqVars, geoVars>>
    \/ PASD_FutureUnavailable /\ UNCHANGED <<calVars, freqVars, geoVars>>
    \/ PASD_FutureLoaded /\ UNCHANGED <<calVars, freqVars, geoVars>>

SpecClassify == InitClassify /\ [][NextClassify]_vars

InitCoverage ==
    /\ ExtIdle
    /\ calendar = <<>>
    /\ CalIdle
    /\ FreqIdle
    /\ ClsIdle
    /\ allStops = <<>>
    /\ CenIdle
    /\ AppIdle
    /\ selectedYear \in Years
    /\ turfLoaded \in BOOLEAN
    /\ \E n \in 0..MaxWalkStops :
         /\ \E future \in BOOLEAN :
              /\ future => selectedYear \in futureYears /\ n > 0
              /\ stopList = StopListOf(n, future)
         /\ \E f \in IsoChoices(selectedYear) :
              isochrones = IsochronesOf(selectedYear, n, f)
    /\ boundary \in Boundaries
    /\ cpc = "start"
    /\ walksheds = <<>>
    /\ union = NullPolygon
    /\ unionIdx = 0
    /\ unionRaised = {}
    /\ clipRaised = {}
    /\ clipped = NullPolygon
    /\ diff = NullPolygon
    /\ result = NoResult

NextCoverage ==
    \/ CWC_EarlyReturn /\ UNCHANGED <<extVars, calVars, freqVars, clsVars, cenVars, appVars>>
    \/ CWC_Walksheds /\ UNCHANGED <<extVars, calVars, freqVars, clsVars, cenVars, appVars>>
    \/ CWC_Union /\ UNCHANGED <<extVars, calVars, freqVars, clsVars, cenVars, appVars>>
    \/ CWC_NoBoundary /\ UNCHANGED <<extVars, calVars, freqVars, clsVars, cenVars, appVars>>
    \/ CWC_Clip /\ UNCHANGED <<extVars, calVars, freqVars, clsVars, cenVars, appVars>>

SpecCoverage == InitCoverage /\ [][NextCoverage]_vars

InitCensus ==
    /\ ExtIdle
    /\ calendar = <<>>
    /\ CalIdle
    /\ FreqIdle
    /\ ClsIdle
    /\ selectedYear = "2020"
    /\ allStops = <<>>
    /\ turfLoaded \in BOOLEAN
    /\ CwcIdle
    /\ AppIdle
    /\ walkshedPolygon \in WalkshedPolygons
    /\ censusFetch = "none"
    /\ blockGeometries = <<>>
    /\ bpc = "start"
    /\ blockIdx = 0
    /\ blockCalls = <<>>
    /\ populationInWalkshed = 0
    /\ blocksInWalkshed = 0
    /\ censusData = NoCensusData
    /\ loadingCensus = FALSE
    /\ censusBlocks = [set |-> FALSE, features |-> <<>>]

NextCensus ==
    \/ LCD_NotLoaded /\ UNCHANGED <<extVars, calVars, freqVars, clsVars, covVars, appVars>>
    \/ LCD_Begin /\ UNCHANGED <<extVars, calVars, freqVars, clsVars, covVars, appVars>>
    \/ LCD_FetchFailed /\ UNCHANGED <<extVars, calVars, freqVars, clsVars, covVars, appVars>>
    \/ LCD_Fetched /\ UNCHANGED <<extVars, calVars, freqVars, clsVars, covVars, appVars>>
    \/ LCD_Block /\ UNCHANGED <<extVars, calVars, freqVars, clsVars, covVars, appVars>>
    \/ LCD_Publish /\ UNCHANGED <<extVars, calVars, freqVars, clsVars, covVars, appVars>>

SpecCensus == InitCensus /\ [][NextCensus]_vars

\* what the effects leave alone
appRest == <<extVars, calVars, freqVars, cenVars, selectedYear, allStops, ppc,
             frequentStopList, futureStopsFile, stopList, boundary, cpc,
             walksheds, union, unionIdx, unionRaised, clipRaised, clipped,
             diff, result>>

\* the component after its first render: the four loads are under way
InitApp ==
    /\ ExtIdle
    /\ calendar = <<>>
    /\ CalIdle
    /\ FreqIdle
    /\ ClsIdle
    /\ selectedYear = "2020"
    /\ allStops = <<>>
    /\ CovIdle
    /\ CenIdle
    /\ seattleBoundary = NullBoundary
    /\ stats = NoStats
    /\ mergedPolygonRef = NullPolygon
    /\ mergedPolygonOutOfBoundsRef = NullPolygon
    /\ turfScript = "loading"
    /\ boundaryLoad = "fetching"
    /\ stopsLoad = MountClosure
    /\ isoLoad = "fetching"

NextApp ==
    \/ TurfOnload /\ UNCHANGED appRest
    \/ BoundaryLoaded /\ UNCHANGED appRest
    \/ BoundaryFailed /\ UNCHANGED appRest
    \/ StopsLoaded /\ UNCHANGED appRest
    \/ StopsFailed /\ UNCHANGED appRest
    \/ IsochronesLoaded /\ UNCHANGED appRest

SpecApp == InitApp /\ [][NextApp]_vars

\* every script and every fetch that was started completes
SpecAppFair == SpecApp /\ WF_vars(NextApp)

\* the most stops of the coverage calculation the census analysis follows
MaxEngineStops == 2

\* the engine: a coverage calculation on the stops of a year without
\* isochrones, its result stored, then the census analysis of the stored
\* merged polygon
InitEngine ==
    /\ ExtIdle
    /\ calendar = <<>>
    /\ CalIdle
    /\ FreqIdle
    /\ ClsIdle
    /\ allStops = <<>>
    /\ CenIdle
    /\ AppIdle
    /\ selectedYear = "2025"
    /\ turfLoaded \in BOOLEAN
    /\ isochrones = EmptyIsochrones
    /\ \E n \in 0..MaxEngineStops : stopList = StopListOf(n, FALSE)
    /\ boundary \in Boundaries
    /\ cpc = "start"
    /\ walksheds = <<>>
    /\ union = NullPolygon
    /\ unionIdx = 0
    /\ unionRaised = {}
    /\ clipRaised = {}
    /\ clipped = NullPolygon
    /\ diff = NullPolygon
    /\ result = NoResult

NextEngine ==
    \/ CWC_EarlyReturn /\ UNCHANGED <<extVars, calVars, freqVars, clsVars, cenVars, appVars>>
    \/ CWC_Walksheds /\ UNCHANGED <<extVars, calVars, freqVars, clsVars, cenVars, appVars>>
    \/ CWC_Union /\ UNCHANGED <<extVars, calVars, freqVars, clsVars, cenVars, appVars>>
    \/ CWC_NoBoundary /\ UNCHANGED <<extVars, calVars, freqVars, clsVars, cenVars, appVars>>
    \/ CWC_Clip /\ UNCHANGED <<extVars, calVars, freqVars, clsVars, cenVars, appVars>>
    \/ StoreCoverage /\ UNCHANGED <<extVars, calVars, freqVars, clsVars, cenVars>>
    \/ CensusButton /\ UNCHANGED <<extVars, calVars, freqVars, clsVars, covVars, appVars>>
    \/ LCD_Begin /\ UNCHANGED <<extVars, calVars, freqVars, clsVars, covVars, appVars>>
    \/ LCD_FetchFailed /\ UNCHANGED <<extVars, calVars, freqVars, clsVars, covVars, appVars>>
    \/ LCD_Fetched /\ UNCHANGED <<extVars, calVars, freqVars, clsVars, covVars, appVars>>
    \/ LCD_Block /\ UNCHANGED <<extVars, calVars, freqVars, clsVars, covVars, appVars>>
    \/ LCD_Publish /\ UNCHANGED <<extVars, calVars, freqVars, clsVars, covVars, appVars>>

SpecEngine == InitEngine /\ [][NextEngine]_vars


(***************************************************************************)
(* generate-isochrones: generateIsochrones asks the Mapbox Isochrone API   *)
(* for one stop, generateAllIsochrones walks the stops that have no record *)
(* yet, main() reads the stop file and the output file and writes the      *)
(* result back to the output file.                                         *)
(***************************************************************************)
MaxGenStops == 3
MaxRuns == 2

GenIds == 1..MaxGenStops

\* a stop of all_stops_{DATASET}.json
GenStop(k) == [id |-> StopIdOf(k), name |-> k, lon |-> k, lat |-> 0]

\* what the request for one stop can come to: both contours, a feature
\* collection without the 10 minute contour, a status that is not ok, a
\* rejected fetch, a body without features
Outcomes == {"ok", "partial", "http", "rejected", "malformed"}

\* generateIsochrones: the record of the stop, or null. The result is a
\* sequence holding the record, empty for null.
GenerateIsochrones(stop, outcome) ==
    IF outcome \in {"http", "rejected", "malformed"}
    THEN <<>>
    ELSE << [stop_id        |-> stop.id,
             stop_name      |-> stop.name,
             coordinates    |-> <<stop.lon, stop.lat>>,
             isochrone_5min |-> "polygon",
             isochrone_10min |->
                 IF outcome = "ok" THEN "polygon" ELSE "undefined"] >>

\* existingStopIds
ExistingStopIds(existing) == {existing[j].stop_id : j \in 1..Len(existing)}

StopsToProcess_All(stops, existing) == stops

\* stops.filter(stop => !existingStopIds.has(stop.id))
StopsToProcess(stops, existing) ==
    LET missing(stop) == stop.id \notin ExistingStopIds(existing)
    IN  SelectSeq(stops, missing)

\* the orders in which the stops of K can stand in the stop file
StopFilesOf(K) ==
    {f \in [1..Cardinality(K) -> K] :
        \A a, b \in 1..Cardinality(K) : a # b => f[a] # f[b]}

RECURSIVE RecordsOfIds(_, _)
\* records of an earlier run for the stops of K, in ascending order from k
RecordsOfIds(K, k) ==
    IF k > MaxGenStops THEN <<>>
    ELSE (IF k \in K THEN GenerateIsochrones(GenStop(k), "ok") ELSE <<>>)
         \o RecordsOfIds(K, k + 1)

InitGenerate ==
    /\ calendar = <<>> /\ selectedYear = "2020" /\ allStops = <<>>
    /\ CalIdle /\ FreqIdle /\ ClsIdle
    /\ CovIdle /\ CenIdle /\ AppIdle /\ SesIdle
    /\ \E K \in SUBSET GenIds : \E f \in StopFilesOf(K) :
           genStops = [i \in 1..Cardinality(K) |-> GenStop(f[i])]
    /\ \E E \in SUBSET GenIds : existingIsochrones = RecordsOfIds(E, 1)
    /\ genIsochrones = <<>>
    /\ stopsToProcess = <<>>
    /\ genIdx = 0
    /\ genRequests = <<>>
    /\ genFailed = {}
    /\ genRuns = 1
    /\ lastRun = [requested |-> <<>>, missed |-> {}]
    /\ genpc = "start"

\* generateAllIsochrones up to its loop: copy, filter, early return
GAI_Begin ==
    /\ genpc = "start"
    /\ genIsochrones' = existingIsochrones
    /\ stopsToProcess' = StopsToProcess(genStops, existingIsochrones)
    /\ genIdx' = 0
    /\ genpc' = IF Len(stopsToProcess') = 0 THEN "returned" ELSE "loop"
    /\ UNCHANGED <<genStops, existingIsochrones, genRequests, genFailed,
                   genRuns, lastRun>>

\* one turn of the loop: the request, the push, the delay
GAI_Step ==
    /\ genpc = "loop"
    /\ \E outcome \in Outcomes :
         LET stop == stopsToProcess[genIdx + 1]
             record == GenerateIsochrones(stop, outcome)
         IN  /\ genRequests' = Append(genRequests, stop.id)
             /\ genIsochrones' = genIsochrones \o record
             /\ genFailed' = IF record = <<>>
                             THEN genFailed \cup {stop.id} ELSE genFailed
    /\ genIdx' = genIdx + 1
    /\ genpc' = IF genIdx' < Len(stopsToProcess) THEN "loop" ELSE "returned"
    /\ UNCHANGED <<genStops, existingIsochrones, stopsToProcess, genRuns,
                   lastRun>>

\* main() once more: the output file of the run before is the existing data
Main_Rerun ==
    /\ genpc = "returned"
    /\ genRuns < MaxRuns
    /\ existingIsochrones' = genIsochrones
    /\ lastRun' = [requested |-> genRequests, missed |-> genFailed]
    /\ genRuns' = genRuns + 1
    /\ genIsochrones' = <<>>
    /\ stopsToProcess' = <<>>
    /\ genIdx' = 0
    /\ genRequests' = <<>>
    /\ genFailed' = {}
    /\ genpc' = "start"
    /\ UNCHANGED genStops

genRest == <<calVars, freqVars, clsVars, covVars, cenVars, appVars, sesVars>>

NextGenerate ==
    \/ GAI_Begin /\ UNCHANGED genRest
    \/ GAI_Step /\ UNCHANGED genRest
    \/ Main_Rerun /\ UNCHANGED genRest

SpecGenerate == InitGenerate /\ [][NextGenerate]_vars


(***************************************************************************)
(* The year selector: handleYearChange clears what is shown and the two    *)
(* effects with the dependency [selectedYear] start a stop load and an     *)
(* isochrone load for the new year. Nothing cancels the loads started for  *)
(* the year before; each works with the state of the render that started   *)
(* it and calls the setters when its fetch settles.                        *)
(***************************************************************************)
MaxYearChanges == 3
MaxCensusYearChanges == 1

\* the years between which the selector is moved
SessionYears == {"2020", "2025"}

YearIndex(year) == IF year = "2020" THEN 1 ELSE 2

\* the composite id extract-all-stops gives the stop of a year's file
SessionStopId(year) ==
    YearChars(year) \o MetroInfix \o StopIdOf(YearIndex(year))

\* all_stops_{year}.json: one frequent stop inside the city, at a place of
\* its own
StopFileOf(year) ==
    << [id |-> SessionStopId(year),
        original_id |-> StopIdOf(YearIndex(year)),
        has_hourly_trips |-> TRUE, hourly_trips |-> Flat(6),
        lon |-> YearIndex(year) + 1, lat |-> 0] >>

\* the Map loadIsochrones builds from isochrones_{year}.json
IsoFileOf(year) ==
    [k \in {SessionStopId(year)} |->
        [stop_id |-> k,
         isochrone_10min |-> ContourOf(YearIndex(year) + 1, 3)]]

\* a load in flight with what it reads of the render that started it
LoadOf(kind, year, isos) ==
    [kind |-> kind, selectedYear |-> year, isochrones |-> isos]

RemoveAt(seq, i) == SubSeq(seq, 1, i - 1) \o SubSeq(seq, i + 1, Len(seq))

\* what the session actions leave alone
sesRest == <<calVars, freqVars, genVars, allStops, ppc, frequentStopList,
             futureStopsFile, turfLoaded, stopList, boundary, cpc, walksheds,
             union, unionIdx, unionRaised, clipRaised, clipped, diff, result,
             seattleBoundary, turfScript, boundaryLoad, stopsLoad, isoLoad,
             walkshedPolygon, censusFetch, blockGeometries, bpc, blockIdx,
             blockCalls, populationInWalkshed, blocksInWalkshed,
             loadingCensus>>

\* handleYearChange(year) from the onChange of the selector, and the
\* effects of the render it causes
HandleYearChange(year, limit) ==
    /\ yearChanges < limit
    /\ year # selectedYear
    /\ yearChanges' = yearChanges + 1
    /\ selectedYear' = year
    /\ stats' = NoStats
    /\ censusData' = NoCensusData
    /\ frequentStops' = <<>>
    /\ censusBlocks' = [set |-> FALSE, features |-> <<>>]
    /\ mergedPolygonRef' = NullPolygon
    /\ mergedPolygonOutOfBoundsRef' = NullPolygon
    /\ pendingLoads' = pendingLoads
           \o << LoadOf("stops", year, isochrones),
                 LoadOf("isochrones", year, EmptyIsochrones) >>
    /\ UNCHANGED isochrones

\* loadUploadedFile and processAllStopsData of a load in flight: the file
\* arrived; then the effect of the render setFrequentStops causes
SessionStopsLoaded(i) ==
    /\ i \in 1..Len(pendingLoads)
    /\ pendingLoads[i].kind = "stops"
    /\ pendingLoads' = RemoveAt(pendingLoads, i)
    /\ LET load == pendingLoads[i]
           finalStopList == LocatedFrequent(StopFileOf(load.selectedYear))
           res == CoverageOf(finalStopList, seattleBoundary,
                             load.selectedYear, load.isochrones, turfLoaded)
           shown == RecalcEffect(seattleBoundary, finalStopList, isochrones,
                                 turfLoaded, selectedYear,
                                 PublishedOf(Len(finalStopList), res), TRUE)
       IN  /\ frequentStops' = finalStopList
           /\ stats' = shown.stats
           /\ mergedPolygonRef' = shown.mergedPolygonRef
           /\ mergedPolygonOutOfBoundsRef' = shown.mergedPolygonOutOfBoundsRef
    /\ UNCHANGED <<selectedYear, isochrones, censusData, censusBlocks,
                   yearChanges>>

\* loadUploadedFile of a load in flight: the fetch rejects
SessionStopsFailed(i) ==
    /\ i \in 1..Len(pendingLoads)
    /\ pendingLoads[i].kind = "stops"
    /\ pendingLoads' = RemoveAt(pendingLoads, i)
    /\ UNCHANGED <<selectedYear, frequentStops, isochrones, stats,
                   mergedPolygonRef, mergedPolygonOutOfBoundsRef, censusData,
                   censusBlocks, yearChanges>>

\* setIsochrones of a load in flight and the effect of the next render
SessionIsochronesSet(i, isoMap) ==
    /\ i \in 1..Len(pendingLoads)
    /\ pendingLoads[i].kind = "isochrones"
    /\ pendingLoads' = RemoveAt(pendingLoads, i)
    /\ isochrones' = isoMap
    /\ LET shown == RecalcEffect(seattleBoundary, frequentStops, isoMap,
                                 turfLoaded, selectedYear, Shown, TRUE)
       IN  /\ stats' = shown.stats
           /\ mergedPolygonRef' = shown.mergedPolygonRef
           /\ mergedPolygonOutOfBoundsRef' = shown.mergedPolygonOutOfBoundsRef
    /\ UNCHANGED <<selectedYear, frequentStops, censusData, censusBlocks,
                   yearChanges>>

\* loadIsochrones of a load in flight: the file arrived
SessionIsochronesLoaded(i) ==
    /\ i \in 1..Len(pendingLoads)
    /\ SessionIsochronesSet(i, IsoFileOf(pendingLoads[i].selectedYear))

\* loadIsochrones of a load in flight: the fetch rejects
SessionIsochronesFailed(i) == SessionIsochronesSet(i, EmptyIsochrones)

\* the component showing 2020 with library, boundary, stops and isochrones
\* loaded and nothing in flight
SessionSettled ==
    /\ calendar = <<>> /\ allStops = <<>>
    /\ CalIdle /\ FreqIdle /\ GenIdle
    /\ ppc = "idle" /\ frequentStopList = <<>> /\ futureStopsFile = "none"
    /\ selectedYear = "2020"
    /\ turfLoaded = TRUE
    /\ stopList = <<>> /\ boundary = NullBoundary /\ cpc = "idle"
    /\ walksheds = <<>> /\ union = NullPolygon /\ unionIdx = 0
    /\ unionRaised = {} /\ clipRaised = {} /\ clipped = NullPolygon
    /\ diff = NullPolygon /\ result = NoResult
    /\ CenIdle
    /\ seattleBoundary = BoundaryOf(<<CityFeature>>)
    /\ turfScript = "loaded"
    /\ boundaryLoad = "done"
    /\ stopsLoad = [MountClosure EXCEPT !.phase = "done"]
    /\ isoLoad = "done"
    /\ pendingLoads = <<>>
    /\ yearChanges = 0
    /\ isochrones = IsoFileOf("2020")
    /\ frequentStops = LocatedFrequent(StopFileOf("2020"))
    /\ LET shown == recalculateWalksheds(seattleBoundary, frequentStops,
                                         isochrones, TRUE, "2020",
                                         Published(NoStats, NullPolygon,
                                                   NullPolygon))
       IN  /\ stats = shown.stats
           /\ mergedPolygonRef = shown.mergedPolygonRef
           /\ mergedPolygonOutOfBoundsRef = shown.mergedPolygonOutOfBoundsRef

InitSession == SessionSettled

NextSession ==
    \/ \E year \in SessionYears :
          HandleYearChange(year, MaxYearChanges) /\ UNCHANGED sesRest
    \/ \E i \in 1..Len(pendingLoads) :
          SessionStopsLoaded(i) /\ UNCHANGED sesRest
    \/ \E i \in 1..Len(pendingLoads) :
          SessionStopsFailed(i) /\ UNCHANGED sesRest
    \/ \E i \in 1..Len(pendingLoads) :
          SessionIsochronesLoaded(i) /\ UNCHANGED sesRest
    \/ \E i \in 1..Len(pendingLoads) :
          SessionIsochronesFailed(i) /\ UNCHANGED sesRest

SpecSession == InitSession /\ [][NextSession]_vars

\* what the census analysis leaves alone
censusRest == <<extVars, calVars, freqVars, clsVars, covVars, appVars>>

\* what the session actions leave alone of the census analysis
sesCensusRest == <<calVars, freqVars, genVars, allStops, ppc,
                   frequentStopList, futureStopsFile, turfLoaded, stopList,
                   boundary, cpc, walksheds, union, unionIdx, unionRaised,
                   clipRaised, clipped, diff, result, seattleBoundary,
                   turfScript, boundaryLoad, stopsLoad, isoLoad>>

\* the session with the population button
NextCensusRace ==
    \/ \E year \in SessionYears :
          HandleYearChange(year, MaxCensusYearChanges) /\ UNCHANGED sesRest
    \/ \E i \in 1..Len(pendingLoads) :
          SessionStopsLoaded(i) /\ UNCHANGED sesRest
    \/ \E i \in 1..Len(pendingLoads) :
          SessionStopsFailed(i) /\ UNCHANGED sesRest
    \/ \E i \in 1..Len(pendingLoads) :
          SessionIsochronesLoaded(i) /\ UNCHANGED sesRest
    \/ \E i \in 1..Len(pendingLoads) :
          SessionIsochronesFailed(i) /\ UNCHANGED sesRest
    \/ CensusButton /\ UNCHANGED censusRest
    \/ LCD_Begin /\ UNCHANGED censusRest
    \/ LCD_FetchFailed /\ UNCHANGED censusRest
    \/ LCD_Fetched /\ UNCHANGED censusRest
    \/ LCD_Block /\ UNCHANGED censusRest
    \/ LCD_Publish /\ UNCHANGED censusRest

SpecCensusRace == InitSession /\ [][NextCensusRace]_vars

-----------------------------------------------------------------------------
(* Reference notions the properties are stated with *)

\* Julian day number of a proleptic Gregorian date, m in 1..12
JulianDay(y, m, d) ==
    LET a  == IF m <= 2 THEN 1 ELSE 0
        yy == y + 4800 - a
        mm == m + 12 * a - 3
    IN  d + ((153 * mm + 2) \div 5) + 365 * yy + (yy \div 4) - (yy \div 100)
          + (yy \div 400) - 32045

\* day number of a YYYYMMDD string
DayNumberOf(str) ==
    JulianDay(DigitsValue(SubSeq(str, 1, 4)), DigitsValue(SubSeq(str, 5, 6)),
              DigitsValue(SubSeq(str, 7, 8)))

\* 0 is Sunday
WeekdayOf(str) == (DayNumberOf(str) + 1) % 7

IsCalendarDate(str) ==
    /\ Len(str) = 8
    /\ \A i \in 1..8 : IsDigit(str[i])
    /\ LET y == DigitsValue(SubSeq(str, 1, 4))
           m == DigitsValue(SubSeq(str, 5, 6))
           d == DigitsValue(SubSeq(str, 7, 8))
           long == {1, 3, 5, 7, 8, 10, 12}
           leap == (y % 4 = 0 /\ y % 100 # 0) \/ y % 400 = 0
       IN  /\ m \in 1..12
           /\ d >= 1
           /\ d <= (IF m \in long THEN 31 ELSE IF m # 2 THEN 30
                    ELSE IF leap THEN 29 ELSE 28)

MonFri(c) ==
    <<c.monday, c.tuesday, c.wednesday, c.thursday, c.friday>>
        = <<"1", "1", "1", "1", "1">>

MonFriRows == { i \in 1..Len(calendar) : MonFri(calendar[i]) }

DatedRows == { i \in MonFriRows : calendar[i].start_date # <<>> }

\* the inclusive range of row i, open on a side whose date is missing,
\* contains the day of str
RangeContains(i, str) ==
    /\ calendar[i].start_date # <<>> =>
          DayNumberOf(calendar[i].start_date) <= DayNumberOf(str)
    /\ calendar[i].end_date # <<>> =>
          DayNumberOf(str) <= DayNumberOf(calendar[i].end_date)

DateChosen == gpc = "done" /\ wednesdayDateStr # <<>>

-----------------------------------------------------------------------------
(* Properties of getRelevantServiceIds, under SpecCalendar *)

\* C7: when getRelevantServiceIds has chosen its representative date, the
\* date is a Wednesday of the calendar and the returned set holds exactly
\* the service ids of the rows flagged on all of Monday..Friday whose
\* inclusive start..end range contains that date.
C7_ExactlyTheServicesOfThatWednesday ==
    DateChosen =>
        /\ IsCalendarDate(wednesdayDateStr)
        /\ WeekdayOf(wednesdayDateStr) = 3
        /\ relevantServiceIds =
              { calendar[i].service_id :
                  i \in { j \in MonFriRows : RangeContains(j, wednesdayDateStr) } }

\* a Mon-Fri row is returned, another Mon-Fri row is left out because its
\* range ends before the Wednesday
C7_Witness ==
    /\ DateChosen
    /\ \E i, j \in MonFriRows :
          /\ calendar[i].service_id \in relevantServiceIds
          /\ calendar[j].service_id \notin relevantServiceIds
          /\ calendar[j].end_date # <<>>
          /\ DayNumberOf(calendar[j].end_date) < DayNumberOf(wednesdayDateStr)

\* C8: the representative date is the first Wednesday on or after L, the
\* greatest start date of the Mon-Fri rows: L itself when L is a Wednesday,
\* otherwise 1 to 6 days later, one loop iteration per day.
C8_FirstWednesdayOnOrAfterLatestStart ==
    DateChosen =>
        /\ latestStartDate \in { calendar[i].start_date : i \in DatedRows }
        /\ \A i \in DatedRows :
              DayNumberOf(calendar[i].start_date) <= DayNumberOf(latestStartDate)
        /\ IsCalendarDate(wednesdayDateStr)
        /\ WeekdayOf(wednesdayDateStr) = 3
        /\ DayNumberOf(wednesdayDateStr) - DayNumberOf(latestStartDate) \in 0..6
        /\ advances = DayNumberOf(wednesdayDateStr) - DayNumberOf(latestStartDate)
        /\ WeekdayOf(latestStartDate) = 3 <=> wednesdayDateStr = latestStartDate

\* Thursday 26 December 2024 leads to Wednesday 1 January 2025
C8_Witness ==
    /\ DateChosen
    /\ latestStartDate = D20241226
    /\ wednesdayDateStr = D20250101
    /\ advances = 6
    /\ Cardinality(DatedRows) = 2

\* C9 as stated: the result is empty only when no row is flagged
\* Monday..Friday, and whenever some row is, every Mon-Fri row with both
\* dates missing is returned.
C9_EmptyOnlyWithoutMonFriRows ==
    gpc = "done" =>
        /\ relevantServiceIds = {} => MonFriRows = {}
        /\ \A i \in MonFriRows :
              calendar[i].start_date = <<>> /\ calendar[i].end_date = <<>>
                  => calendar[i].service_id \in relevantServiceIds

\* C9 amended: without a Mon-Fri row that has a start date the result is
\* empty; with one, a missing date leaves the range open on that side, so a
\* Mon-Fri row with both dates missing is returned, one without a start
\* date is returned exactly when the Wednesday is not after its end date,
\* and one without an end date exactly when its start date is not after
\* the Wednesday.
C9_OpenEndedOnceADateIsChosen ==
    gpc = "done" =>
        /\ DatedRows = {} => relevantServiceIds = {} /\ wednesdayDateStr = <<>>
        /\ DatedRows # {} =>
              /\ wednesdayDateStr # <<>>
              /\ \A i \in MonFriRows :
                    LET c == calendar[i]
                        returned == c.service_id \in relevantServiceIds
                    IN  /\ c.start_date = <<>> /\ c.end_date = <<>> => returned
                        /\ c.start_date = <<>> /\ c.end_date # <<>> =>
                              (returned <=> DayNumberOf(wednesdayDateStr)
                                                <= DayNumberOf(c.end_date))
                        /\ c.start_date # <<>> /\ c.end_date = <<>> =>
                              (returned <=> DayNumberOf(c.start_date)
                                                <= DayNumberOf(wednesdayDateStr))

\* a row with no dates at all is returned next to a dated row
C9_Witness ==
    /\ DateChosen
    /\ \E i \in MonFriRows :
          /\ calendar[i].start_date = <<>>
          /\ calendar[i].end_date = <<>>
          /\ calendar[i].service_id \in relevantServiceIds
    /\ DatedRows # {}

-----------------------------------------------------------------------------
(* Properties of calculateStopFrequencies, under SpecFreq *)

\* calculateStopFrequencies has just returned the aggregated map
Aggregated == fpc = "returned" /\ activeServiceIds # {}

GroupsAt(stopId) ==
    { i \in 1..Len(stopRouteDirectionHeadways) :
          stopRouteDirectionHeadways[i].stop_id = stopId }

CountOf(i, h) == GroupCount(stopRouteDirectionHeadways[i].tripTimes, h)

SetMax(S) == CHOOSE m \in S : \A c \in S : c <= m

RECURSIVE SumOver(_, _)
SumOver(S, h) ==
    IF S = {} THEN 0
    ELSE LET i == CHOOSE j \in S : TRUE
         IN  CountOf(i, h) + SumOver(S \ {i}, h)

\* C1: every stop of the returned map has, for each hour 0..23, a natural
\* number equal to the greatest of the hour's counts over the groups
\* (route key, direction) of that stop; where two groups both count trips
\* in the hour, it is less than the sum of the groups' counts.
C1_StopProfileIsMaxOverGroups ==
    Aggregated =>
        /\ DOMAIN stopFrequencies =
              { stopRouteDirectionHeadways[i].stop_id :
                    i \in 1..Len(stopRouteDirectionHeadways) }
        /\ \A stopId \in DOMAIN stopFrequencies :
              /\ DOMAIN stopFrequencies[stopId] = { NumToString(h) : h \in 0..23 }
              /\ \A h \in 0..23 :
                    LET v == stopFrequencies[stopId][NumToString(h)]
                        G == GroupsAt(stopId)
                    IN  /\ v \in Nat
                        /\ v = SetMax({ CountOf(i, h) : i \in G })
                        /\ (\E i, j \in G :
                                i # j /\ CountOf(i, h) > 0 /\ CountOf(j, h) > 0)
                              => v < SumOver(G, h)

\* two groups of one stop each count a trip in the same hour and the stop
\* is credited with one trip in that hour
C1_Witness ==
    /\ Aggregated
    /\ \E stopId \in DOMAIN stopFrequencies : \E h \in 0..23 :
          /\ \E i, j \in GroupsAt(stopId) :
                i # j /\ CountOf(i, h) = 1 /\ CountOf(j, h) = 1
          /\ stopFrequencies[stopId][NumToString(h)] = 1

\* the hour a stop-time row falls in, or -1 when it has none
ParsedHour(st) ==
    LET time == IF st.arrival_time # <<>> THEN st.arrival_time
                ELSE st.departure_time
        field == SplitColonFirst(time)
    IN  IF time = <<>> \/ field = <<>> \/ ~IsDigit(Head(field)) THEN 0 - 1
        ELSE DigitsValue(LeadingDigits(field)) % 24

TripRow(tid) == trips[CHOOSE i \in 1..Len(trips) : trips[i].trip_id = tid]

RouteKeyOf(route) ==
    IF route \in {R100173, R100219} THEN R100173 \o <<"|">> \o R100219
    ELSE route

\* the active trips that have a stop-time row at the group's stop in hour h
TripsServing(g, h) ==
    { st.trip_id :
        st \in { r \in stopTimes :
                   /\ r.stop_id = g.stop_id
                   /\ ParsedHour(r) = h
                   /\ TripRow(r.trip_id).service_id \in activeServiceIds
                   /\ RouteKeyOf(TripRow(r.trip_id).route_id) = g.route_id
                   /\ TripRow(r.trip_id).direction_id = g.direction_id } }

\* C2: for every group (stop, route key, direction) and every hour 0..23,
\* the group's count is the number of distinct trip ids, numeric or not,
\* whose service is active and that have a stop-time row at that stop in
\* that hour; the rows of inactive trips create no group and count nowhere.
C2_GroupCountsDistinctActiveTrips ==
    fpc = "forEach" =>
        /\ \A i \in 1..Len(stopRouteDirectionHeadways) : \A h \in 0..23 :
              CountOf(i, h) =
                  Cardinality(TripsServing(stopRouteDirectionHeadways[i], h))
        /\ \A st \in stopTimes :
              TripRow(st.trip_id).service_id \notin activeServiceIds =>
                  \A i \in 1..Len(stopRouteDirectionHeadways) : \A h \in 0..23 :
                      st.trip_id \notin
                          (IF NumToString(h) \in DOMAIN stopRouteDirectionHeadways[i].tripTimes
                           THEN stopRouteDirectionHeadways[i].tripTimes[NumToString(h)]
                           ELSE {})

\* C10: with no active service, calculateStopFrequencies returns the empty
\* map, each extracted stop carries an empty hourly profile, the filter of
\* processAllStopsData keeps none of them and the published list is empty;
\* every step on the way is enabled.
C10_NoActiveServiceGivesNoFrequentStop ==
    activeServiceIds = {} /\ fpc # "idle" =>
        /\ fpc # "forEach"
        /\ fpc = "start" => ENABLED CSF_NoActiveService
        /\ fpc = "returned" => stopFrequencies = EmptyMap /\ ENABLED ES_Combine
        /\ fpc = "extracted" =>
              /\ Len(allStops) = Len(SelectSeq(ParsedStops, HasCoordinates))
              /\ \A i \in 1..Len(allStops) :
                    /\ allStops[i].has_hourly_trips
                    /\ DOMAIN allStops[i].hourly_trips = {}
              /\ ppc = "start" => ENABLED PASD_Filter
              /\ ppc = "addFutureStops" =>
                    frequentStopList = <<>> /\ ENABLED PASD_NoFutureYear
              /\ ppc = "done" => frequentStopList = <<>> /\ frequentStops = <<>>

\* the whole chain has run for a feed with stops and no active service
C10_Witness ==
    /\ activeServiceIds = {}
    /\ fpc = "extracted"
    /\ ppc = "done"
    /\ Len(allStops) = 3
    /\ frequentStops = <<>>

-----------------------------------------------------------------------------
(* Properties of processAllStopsData, under SpecClassify *)

Filtered == ppc \in {"addFutureStops", "done"}

\* trips of a profile in hour h, an absent hour being 0
TripsIn(p, h) == IF NumToString(h) \in DOMAIN p THEN p[NumToString(h)] ELSE 0

Total6to18(p) ==
    TripsIn(p, 6) + TripsIn(p, 7) + TripsIn(p, 8) + TripsIn(p, 9)
        + TripsIn(p, 10) + TripsIn(p, 11) + TripsIn(p, 12) + TripsIn(p, 13)
        + TripsIn(p, 14) + TripsIn(p, 15) + TripsIn(p, 16) + TripsIn(p, 17)
        + TripsIn(p, 18)

FourEveryHour(p) == \A h \in 6..18 : TripsIn(p, h) >= 4

KeptIds == { frequentStopList[i].id : i \in 1..Len(frequentStopList) }

ProfiledStops == { i \in 1..Len(allStops) : allStops[i].has_hourly_trips }

\* C3: the filter rejects every stop whose profile has an hour in 6..18
\* with fewer than 4 trips, an absent hour counting as 0, whatever its total
\* and whatever its counts outside 6..18; the stop is not published either.
C3_HourBelowFourRejects ==
    Filtered =>
        \A i \in ProfiledStops :
            (\E h \in 6..18 : TripsIn(allStops[i].hourly_trips, h) < 4) =>
                /\ allStops[i].id \notin KeptIds
                /\ ppc = "done" =>
                      \A k \in 1..Len(frequentStops) :
                          frequentStops[k].id # allStops[i].id

\* a stop with 87 trips in the window and 3 trips in hour 18 is rejected
C3_Witness ==
    /\ ppc = "done"
    /\ \E i \in ProfiledStops :
          /\ TripsIn(allStops[i].hourly_trips, 18) = 3
          /\ Total6to18(allStops[i].hourly_trips) = 87
          /\ allStops[i].id \notin KeptIds

C5_KeptFromTotal76 ==
    Filtered =>
        \A i \in ProfiledStops :
            /\ FourEveryHour(allStops[i].hourly_trips)
            /\ Total6to18(allStops[i].hourly_trips) >= 76
            => allStops[i].id \in KeptIds

\* C6: every published frequent stop, in every year, has at least 4 trips
\* in every hour 6..18 and at least 77 trips over 6..18.
C6_PublishedStopsMeetThePolicy ==
    ppc = "done" =>
        \A k \in 1..Len(frequentStops) :
            /\ FourEveryHour(frequentStops[k].hourlyTrips)
            /\ Total6to18(frequentStops[k].hourlyTrips) >= 77

-----------------------------------------------------------------------------
(* Unit CoverageMerger: calculateWalkshedCoverage *)

\* the union loop has started
Merging == cpc \in {"union", "returned"} /\ walksheds # <<>>

\* the values of i whose turf.union call returned
UnionSucceeded == { i \in 1..(unionIdx - 1) : i \notin unionRaised }

\* the first walkshed together with the walksheds of the given i
MergeOf(succeeded) ==
    IF succeeded = {} THEN walksheds[1]
    ELSE Polygon(walksheds[1].cells
                 \cup UNION { walksheds[i + 1].cells : i \in succeeded })

\* C11: in the union loop a raising turf.union leaves the accumulator as it
\* was and the loop goes on: at every turn the accumulator is the first
\* walkshed merged with exactly the walksheds whose union call succeeded,
\* and the function only leaves the loop after the last walkshed.
C11_UnionSkipsFailingPairs ==
    Merging =>
        /\ union = MergeOf(UnionSucceeded)
        /\ cpc = "returned" => unionIdx = Len(walksheds)

\* the union with the second walkshed raised, the third one was merged
C11_Witness ==
    /\ cpc = "returned"
    /\ Len(walksheds) >= 3
    /\ 1 \in unionRaised
    /\ 2 \notin unionRaised
    /\ walksheds[3].cells \subseteq union.cells
    /\ ~(walksheds[2].cells \subseteq union.cells)

\* turf.intersect was called: nothing raised before it
IntersectCalled ==
    /\ cpc = "returned"
    /\ walksheds # <<>>
    /\ ~boundary.null
    /\ clipRaised \cap {"areaBoundary", "simplify"} = {}

\* the union shares no cell with the simplified boundary
OutsideRegion ==
    union.cells \cap (boundary.features[1].cells
                      \ boundary.features[1].slivers) = {}

\* C12: with a boundary, when turf.intersect raises or finds the union and
\* the boundary disjoint, the result is coverage '0', a null merged polygon
\* and the whole unclipped union as the out-of-bounds polygon, whatever
\* turf.difference returned.
C12_NoIntersectionGivesWholeUnionOutOfBounds ==
    IntersectCalled /\ ("intersect" \in clipRaised \/ OutsideRegion) =>
        /\ ~result.thrown
        /\ result.coveragePercent = <<"0">>
        /\ result.mergedPolygon = NullPolygon
        /\ result.mergedPolygonOutOfBounds = union

\* turf.intersect raised and turf.difference returned less than the union
C12_Witness ==
    /\ IntersectCalled
    /\ "intersect" \in clipRaised
    /\ ~diff.null
    /\ diff.cells # union.cells
    /\ result.mergedPolygonOutOfBounds = union

\* the tenths of a percent nearest to 100 * area / reference
NearestTenths(area, reference) ==
    CHOOSE t \in 0..3000 :
        /\ 2 * t * reference <= 2000 * area + reference
        /\ 2000 * area + reference < 2 * (t + 1) * reference

\* the characters of t tenths written with one decimal
OneDecimal(t) == NumToString(t \div 10) \o <<".">> \o NumToString(t % 10)

\* the area of the accumulator, in units of 1000 square metres
UnionArea == Cardinality(union.cells) * 31000

\* C13: without a boundary, for a non-empty stop list and a loaded geometry
\* library (and primitives that return), the result is the unclipped union
\* as merged polygon, no out-of-bounds polygon, and the coverage
\* area(union) / 217000000 * 100.
C13_NoBoundaryMeasuresUnionAgainstConstant ==
    (/\ cpc = "returned" /\ boundary.null
     /\ Len(stopList) > 0 /\ turfLoaded /\ clipRaised = {})
    =>
        /\ ~result.thrown
        /\ result.mergedPolygon = union
        /\ result.mergedPolygonOutOfBounds = NullPolygon
        /\ result.coveragePercent = OneDecimal(NearestTenths(UnionArea, 217000))

\* two merged walksheds measured without a boundary
C13_Witness ==
    /\ cpc = "returned" /\ boundary.null
    /\ Len(stopList) >= 2 /\ unionRaised = {} /\ clipRaised = {}
    /\ result.mergedPolygon = union
    /\ result.coveragePercent \notin {<<"0">>, <<"0", ".", "0">>}

\* C14: with a boundary, when measuring the boundary, simplifying it or
\* measuring the clipped polygon raises (and the union can be measured), the
\* result is the one of a missing boundary: the unclipped union as merged
\* polygon and the coverage area(union) / 217000000 * 100.
C14_ClippingFailureFallsBackToUnclipped ==
    (/\ cpc = "returned" /\ walksheds # <<>> /\ ~boundary.null
     /\ clipRaised \cap {"areaBoundary", "simplify", "areaClipped"} # {}
     /\ "areaUnion" \notin clipRaised)
    =>
        /\ result.mergedPolygon = union
        /\ result.coveragePercent = OneDecimal(NearestTenths(UnionArea, 217000))

-----------------------------------------------------------------------------
(* Unit CatchmentResolver: findIsochroneForStop and the fallback circle *)

\* the year whose isochrones serve the stop
LookupYear(stop) ==
    IF selectedYear = "2027" /\ ~stop.isFuture THEN "2025" ELSE selectedYear

\* the three keys of a stop, in the order of the lookup
LookupKeys(stop) ==
    << YearChars(LookupYear(stop)) \o SoundTransitInfix \o stop.id,
       YearChars(LookupYear(stop)) \o MetroInfix \o stop.id,
       stop.id >>

\* the key holds a record with a 10-minute contour
HasContour(key) ==
    key \in DOMAIN isochrones /\ ~isochrones[key].isochrone_10min.null

\* the positions of the keys of a stop that hold a 10-minute contour
Hits(stop) == { j \in 1..3 : HasContour(LookupKeys(stop)[j]) }

\* the cells whose centre lies within 804.672 m of the stop, outlined by a
\* polygon of 32 vertices
HalfMileCircle(stop) ==
    [null |-> FALSE,
     cells |-> { c \in Corridor : Abs(c - stop.lon) * 500000 <= 804672 },
     vertices |-> 32]

\* C19: calculateWalkshedCoverage builds one walkshed per stop: the
\* 10-minute contour of the first of the keys '<year>_soundtransit_<id>',
\* '<year>_metro_<id>', '<id>' that holds one (year 2025 for a stop that is
\* not a future stop when the selected year is 2027), and a circle of 32
\* steps and radius 804.672 m only when none of the three holds one.
C19_OneWalkshedPerStopContourFirst ==
    Merging =>
        /\ Len(walksheds) = Len(stopList)
        /\ \A i \in 1..Len(stopList) :
              LET stop == stopList[i]
                  hits == Hits(stop)
                  first == CHOOSE j \in hits : \A k \in hits : j <= k
              IN  IF hits # {}
                  THEN walksheds[i] =
                           isochrones[LookupKeys(stop)[first]].isochrone_10min
                  ELSE walksheds[i] = HalfMileCircle(stop)

\* year 2027, the last stop is not a future stop: its 2025 Sound Transit
\* key holds no contour, its 2025 Metro key and its raw id hold different
\* ones, and the stops before it get circles
C19_Witness ==
    /\ Merging
    /\ selectedYear = "2027"
    /\ Len(stopList) >= 2
    /\ LET stop == stopList[Len(stopList)]
       IN  /\ ~stop.isFuture
           /\ Hits(stop) = {2, 3}
           /\ YearChars("2027") \o MetroInfix \o stop.id \in DOMAIN isochrones
           /\ walksheds[Len(stopList)] =
                  isochrones[LookupKeys(stop)[2]].isochrone_10min
           /\ walksheds[Len(stopList)] #
                  isochrones[LookupKeys(stop)[3]].isochrone_10min
    /\ walksheds[1] = HalfMileCircle(stopList[1])

-----------------------------------------------------------------------------
(* Unit PopulationApportioner: loadCensusData *)

\* the population count a block carries
Inhabitants(block) ==
    IF block.properties.TOT_POP = <<>> THEN 0
    ELSE DigitsValue(block.properties.TOT_POP)

\* a block of Seattle with at least one inhabitant
Candidate(block) ==
    block.properties.Place = "Seattle" /\ Inhabitants(block) >= 1

LiesWithin(block) == \A c \in block.cells : c \in walkshedPolygon.cells

Overlaps(block) == \E c \in block.cells : c \in walkshedPolygon.cells

\* the outlines meet although no area is shared
Touches(block) ==
    /\ ~Overlaps(block)
    /\ \E c \in block.cells :
          c + 1 \in walkshedPolygon.cells \/ c - 1 \in walkshedPolygon.cells

\* the blocks forEach has visited
Visited == 1..Len(blockCalls)

RECURSIVE CreditedUpTo(_)
CreditedUpTo(k) ==
    IF k = 0 THEN 0 ELSE CreditedUpTo(k - 1) + blockCalls[k].credit

RECURSIVE CandidateInhabitantsUpTo(_)
CandidateInhabitantsUpTo(k) ==
    IF k = 0 THEN 0
    ELSE CandidateInhabitantsUpTo(k - 1)
         + (IF Candidate(blockGeometries[k])
            THEN Inhabitants(blockGeometries[k]) ELSE 0)

\* C16: the total is the sum of what the visited blocks added and the block
\* count is the number of blocks counted, where a candidate block (Place
\* 'Seattle', population >= 1) that lies fully within the walkshed polygon
\* adds its full population, a block that does not intersect the polygon
\* adds zero, and a block of another place or with a population below 1
\* adds zero and is not counted.
C16_WithinFullDisjointZeroOthersSkipped ==
    /\ populationInWalkshed = CreditedUpTo(Len(blockCalls))
    /\ blocksInWalkshed = Cardinality({ i \in Visited : blockCalls[i].counted })
    /\ \A i \in Visited :
          LET block == blockGeometries[i]
              call == blockCalls[i]
          IN  /\ Candidate(block) /\ LiesWithin(block) /\ call.raised = {}
                 => call.credit = 6 * Inhabitants(block) /\ call.counted
              /\ ~Overlaps(block) /\ ~Touches(block)
                 => call.credit = 0 /\ ~call.counted
              /\ ~Candidate(block)
                 => call.credit = 0 /\ ~call.counted

\* a block within, a block away and a block without inhabitants were visited
C16_Witness ==
    /\ bpc = "done" /\ censusData.set /\ ~censusData.error
    /\ populationInWalkshed > 0
    /\ \E i \in Visited :
          /\ Candidate(blockGeometries[i]) /\ LiesWithin(blockGeometries[i])
          /\ blockCalls[i].credit = 6 * Inhabitants(blockGeometries[i])
    /\ \E i \in Visited :
          /\ ~Candidate(blockGeometries[i]) /\ LiesWithin(blockGeometries[i])
          /\ ~blockCalls[i].counted

C18_FailedIntersectionCreditsFullPopulation ==
    \A i \in Visited :
        LET block == blockGeometries[i]
            call == blockCalls[i]
        IN  (/\ Candidate(block)
             /\ Overlaps(block) \/ Touches(block)
             /\ ~LiesWithin(block)
             /\ call.path = "fallback" \/ call.raised = {"intersect"})
            => call.credit = 6 * Inhabitants(block) /\ call.counted

-----------------------------------------------------------------------------
(* The recalculation of the walksheds after the loads *)

\* the library, the boundary, a non-empty list of frequent stops and a
\* non-empty isochrone map have all arrived
AllFourLoaded ==
    /\ turfScript = "loaded"
    /\ boundaryLoad = "done"
    /\ stopsLoad.phase = "done" /\ Len(frequentStops) > 0
    /\ isoLoad = "done" /\ DOMAIN isochrones # {}

\* the walkshed of a frequent stop: its first contour, else its circle
CatchmentOf(stop) ==
    LET hits == Hits(stop)
        first == CHOOSE j \in hits : \A k \in hits : j <= k
    IN  IF hits # {} THEN isochrones[LookupKeys(stop)[first]].isochrone_10min
        ELSE HalfMileCircle(stop)

\* the cells the walksheds of the frequent stops cover
CoveredCells ==
    UNION { CatchmentOf(frequentStops[i]).cells : i \in 1..Len(frequentStops) }

\* the published stats and polygons are those of the frequent stops, their
\* loaded isochrones and the loaded boundary
PublishedFromAllInputs ==
    IF seattleBoundary.features = <<>>
    THEN stats.set /\ stats.coveragePercent # <<"0">>
    ELSE LET region == seattleBoundary.features[1].cells
                           \ seattleBoundary.features[1].slivers
             inside == CoveredCells \cap region
         IN  /\ stats.set /\ stats.stopCount = Len(frequentStops)
             /\ IF inside = {}
                THEN /\ mergedPolygonRef.null
                     /\ mergedPolygonOutOfBoundsRef.cells = CoveredCells
                     /\ ~mergedPolygonOutOfBoundsRef.null
                ELSE /\ mergedPolygonRef.cells = inside
                     /\ stats.coveragePercent =
                            OneDecimal(NearestTenths(Cardinality(inside),
                                Cardinality(seattleBoundary.features[1].cells)))

\* C20: in whatever order the geometry library, the boundary, a non-empty
\* frequent-stop list and a non-empty isochrone map arrive, once all four
\* have arrived the walksheds are eventually recalculated from the boundary
\* and the loaded isochrones and published.
C20_RecalculatedOnceAllFourLoaded == AllFourLoaded ~> PublishedFromAllInputs

\* a call of calculateWalkshedCoverage has returned a result object
CoverageReturned == cpc = "returned" /\ ~result.thrown /\ result.coveragePercent # <<>>

\* loadCensusData got its blocks and has finished
CensusFinished == bpc = "done" /\ censusFetch = "ok"

\* C15: whichever geometry primitives raise, calculateWalkshedCoverage ends
\* by returning a result object and never by throwing, and a census analysis
\* that got its blocks visits every block without an exception leaving the
\* callback and finishes with a population result and loadingCensus false
C15_NoPrimitiveFailureEscapes ==
    /\ cpc = "returned" => CoverageReturned
    /\ \A i \in 1..Len(blockCalls) : ~blockCalls[i].thrown
    /\ CensusFinished =>
          /\ Len(blockCalls) = Len(blockGeometries)
          /\ censusData.set /\ ~censusData.error
          /\ censusData.population # <<>>
          /\ ~loadingCensus

\* a census analysis in which a primitive raised has finished on the merged
\* polygon of a coverage calculation
C15_Witness ==
    /\ CensusFinished
    /\ \E i \in 1..Len(blockCalls) : blockCalls[i].raised # {}
    /\ walkshedPolygon = mergedPolygonRef
    /\ stats.set

\* a coverage calculation in which circle, union or a clipping primitive
\* raised has returned
C15_WitnessCoverage == CoverageReturned /\ (clipRaised # {} \/ unionRaised # {})

-----------------------------------------------------------------------------
(* Further properties of getRelevantServiceIds *)

\* the end date of row i is not before its start date
EndsNotBeforeStart(i) ==
    calendar[i].start_date # <<>> /\ calendar[i].end_date # <<>> =>
        DayNumberOf(calendar[i].start_date) <= DayNumberOf(calendar[i].end_date)

\* the Mon-Fri rows with the greatest start date
LatestRows ==
    { i \in DatedRows :
        \A j \in DatedRows :
            DayNumberOf(calendar[j].start_date) <= DayNumberOf(calendar[i].start_date) }

\* C27: when some Mon-Fri row has a start date and no row ends before it
\* starts, the returned set is not empty and holds the service of the row
\* with the latest start date. Under SpecCalendar.
C27_LatestStartIsReturned ==
    (/\ gpc = "done"
     /\ DatedRows # {}
     /\ \A i \in 1..Len(calendar) : EndsNotBeforeStart(i))
    => /\ relevantServiceIds # {}
       /\ \A i \in LatestRows : calendar[i].service_id \in relevantServiceIds

\* C30: the search for the first Wednesday advances the date at most six
\* times, whatever the latest start date is. Under SpecStartDates.
C30_AtMostSixAdvances == advances <= 6

-----------------------------------------------------------------------------
(* Further properties of calculateStopFrequencies, under SpecFreq *)

\* the trips group i counts in hour h
Bucket(i, h) ==
    LET tripTimes == stopRouteDirectionHeadways[i].tripTimes
    IN  IF NumToString(h) \in DOMAIN tripTimes THEN tripTimes[NumToString(h)]
        ELSE {}

RECURSIVE SumOfHours(_, _)
\* the counts of group i added over the hours 0..h
SumOfHours(i, h) ==
    IF h < 0 THEN 0 ELSE CountOf(i, h) + SumOfHours(i, h - 1)

\* the stop-time rows of active trips
ActiveRows == { st \in stopTimes : TripRow(st.trip_id).service_id \in activeServiceIds }

\* the groups a row belongs to: same stop, route key and direction
GroupsOfRow(st) ==
    { i \in 1..Len(stopRouteDirectionHeadways) :
        /\ stopRouteDirectionHeadways[i].stop_id = st.stop_id
        /\ stopRouteDirectionHeadways[i].route_id =
              RouteKeyOf(TripRow(st.trip_id).route_id)
        /\ stopRouteDirectionHeadways[i].direction_id =
              TripRow(st.trip_id).direction_id }

\* the active trips with a row in some hour at the stop of group i
TripsOfGroup(i) ==
    { st.trip_id : st \in { r \in ActiveRows : i \in GroupsOfRow(r) /\ ParsedHour(r) >= 0 } }

\* C22: each trip is counted once per group: a trip stands in at most one
\* hour bucket of a group, and the 24 counts of a group add up to the number
\* of distinct active trips of the group.
C22_TripCountedOncePerGroup ==
    fpc = "forEach" =>
        \A i \in 1..Len(stopRouteDirectionHeadways) :
            /\ \A tid \in TripsOfGroup(i) :
                  Cardinality({ h \in Hours : tid \in Bucket(i, h) }) = 1
            /\ SumOfHours(i, 23) = Cardinality(TripsOfGroup(i))

\* C23: every row of an active trip with a time is counted in the bucket of
\* its leading hour mod 24 of its group, and a bucket holds no trip without
\* a row in that hour, so a row without a usable time counts nowhere.
C23_RowCountsInItsHourMod24 ==
    fpc = "forEach" =>
        /\ \A st \in ActiveRows :
              ParsedHour(st) >= 0 =>
                  /\ GroupsOfRow(st) # {}
                  /\ \A i \in GroupsOfRow(st) : st.trip_id \in Bucket(i, ParsedHour(st))
        /\ \A i \in 1..Len(stopRouteDirectionHeadways) : \A h \in Hours :
              Bucket(i, h) \subseteq TripsServing(stopRouteDirectionHeadways[i], h)

\* the key of the two allow-listed routes
CombinedKey == R100173 \o <<"|">> \o R100219

\* C24: the rows of routes 100173 and 100219 at one stop in one direction
\* share one group whose route key is 100173|100219 and whose count in an
\* hour is the number of distinct trips of both routes; a group of any
\* other route holds trips of that route only.
C24_AllowListedRoutesShareAGroup ==
    fpc = "forEach" =>
        /\ \A i, j \in 1..Len(stopRouteDirectionHeadways) :
              stopRouteDirectionHeadways[i].key = stopRouteDirectionHeadways[j].key
                  => i = j
        /\ \A st \in ActiveRows :
              ParsedHour(st) >= 0 /\ TripRow(st.trip_id).route_id \in {R100173, R100219}
                  => \E i \in GroupsOfRow(st) :
                        /\ stopRouteDirectionHeadways[i].route_id = CombinedKey
                        /\ CountOf(i, ParsedHour(st)) =
                              Cardinality(TripsServing(stopRouteDirectionHeadways[i],
                                                       ParsedHour(st)))
        /\ \A i \in 1..Len(stopRouteDirectionHeadways) : \A h \in Hours :
              stopRouteDirectionHeadways[i].route_id # CombinedKey =>
                  \A tid \in Bucket(i, h) :
                      TripRow(tid).route_id = stopRouteDirectionHeadways[i].route_id

\* the grouping part of C24 alone
C24_GroupingOnly ==
    fpc = "forEach" =>
        /\ \A st \in ActiveRows :
              ParsedHour(st) >= 0 /\ TripRow(st.trip_id).route_id \in {R100173, R100219}
                  => \E i \in GroupsOfRow(st) :
                        stopRouteDirectionHeadways[i].route_id = CombinedKey
        /\ \A i \in 1..Len(stopRouteDirectionHeadways) : \A h \in Hours :
              stopRouteDirectionHeadways[i].route_id # CombinedKey =>
                  \A tid \in Bucket(i, h) :
                      TripRow(tid).route_id = stopRouteDirectionHeadways[i].route_id

\* the orders in which the rows of a set can stand in stop_times.txt
OrdersOf(S) ==
    { f \in [1..Cardinality(S) -> S] :
        \A a, b \in 1..Cardinality(S) : f[a] = f[b] => a = b }

RECURSIVE ProcessRows(_, _)
\* filter and forEach over the rows in the given order
ProcessRows(groups, rows) ==
    IF rows = <<>> THEN groups
    ELSE ProcessRows(
            IF Head(rows).trip_id \in activeTrips(trips, activeServiceIds)
            THEN ProcessStopTime(groups, trips, Head(rows)) ELSE groups,
            Tail(rows))

\* C25: the returned profiles are those of every order of the same rows
C25_ResultIndependentOfRowOrder ==
    Aggregated =>
        \A rows \in OrdersOf(stopTimes) :
            stopFrequencies =
                WithStringKeys(stopMaxFrequencies(ProcessRows(<<>>, rows), EmptyMap))

-----------------------------------------------------------------------------
(* Further properties of the loading effects *)

\* the library, a non-empty stop list and an empty isochrone map are there,
\* the boundary is still being fetched
BoundaryLastWithoutIsochrones ==
    /\ turfLoaded
    /\ stopsLoad.phase = "done" /\ Len(frequentStops) > 0
    /\ isoLoad = "done" /\ isochrones = EmptyIsochrones
    /\ boundaryLoad = "fetching"

\* C21: when the year has no isochrones and the boundary loads after the
\* stops were processed, the published coverage is eventually the one
\* clipped to the boundary, with a circle for every stop. Under SpecAppFair.
C21_ClippedWithCirclesWithoutIsochrones ==
    BoundaryLastWithoutIsochrones
        ~> (boundaryLoad = "failed"
            \/ (boundaryLoad = "done" /\ PublishedFromAllInputs))

\* the stops of the file without a record among the existing isochrones
MissingStops ==
    LET absent(stop) ==
            \A j \in 1..Len(existingIsochrones) :
                existingIsochrones[j].stop_id # stop.id
    IN  SelectSeq(genStops, absent)

\* the records of the result behind the existing ones
NewRecords == SubSeq(genIsochrones, Len(existingIsochrones) + 1,
                     Len(genIsochrones))

\* the missing stops whose generation gave a record
SucceededStops ==
    LET succeeded(stop) == stop.id \notin genFailed
    IN  SelectSeq(MissingStops, succeeded)

\* C26: when generateAllIsochrones returns, the result is the existing
\* isochrones followed in stop order by one record per missing stop whose
\* generation succeeded; the requests are the missing stops, each once and
\* in stop order, so no present stop is requested and a failure stops
\* nothing behind it; a run on the result of the run before requests
\* exactly the stops that failed there.
C26_ResumablePerItem ==
    genpc = "returned" =>
        /\ Len(genIsochrones) >= Len(existingIsochrones)
        /\ SubSeq(genIsochrones, 1, Len(existingIsochrones))
               = existingIsochrones
        /\ Len(NewRecords) = Len(SucceededStops)
        /\ \A j \in 1..Len(NewRecords) :
               NewRecords[j].stop_id = SucceededStops[j].id
        /\ genRequests = [j \in 1..Len(MissingStops) |-> MissingStops[j].id]
        /\ \A j \in 1..Len(genRequests) :
               genRequests[j] \notin ExistingStopIds(existingIsochrones)
        /\ genRuns > 1 =>
               {genRequests[j] : j \in 1..Len(genRequests)} = lastRun.missed

\* a second run returned after a first run in which a stop failed, a stop
\* behind it succeeded and a stop was already present
C26_Witness ==
    /\ genpc = "returned"
    /\ genRuns = 2
    /\ Len(genRequests) = 1
    /\ \E j \in 2..Len(lastRun.requested) :
           /\ lastRun.requested[j - 1] \in lastRun.missed
           /\ lastRun.requested[j] \notin lastRun.missed
    /\ Len(lastRun.requested) < Len(genStops)

\* the four characters in front of a composite id
YearPrefix(id) == SubSeq(id, 1, 4)

\* C28: once every load in flight has settled, the frequent stops, the
\* stats and the isochrone map that are published belong to the selected
\* year, whatever the order in which the loads settled.
C28_SettledDataIsOfSelectedYear ==
    pendingLoads = <<>> =>
        /\ \A i \in 1..Len(frequentStops) :
               YearPrefix(frequentStops[i].id) = YearChars(selectedYear)
        /\ \A k \in DOMAIN isochrones :
               YearPrefix(k) = YearChars(selectedYear)
        /\ stats.set => stats.stopCount = Len(frequentStops)

\* C29: a population statistic that is published without error was
\* computed from the merged polygon that is stored now.
C29_PopulationFromStoredPolygon ==
    (censusData.set /\ ~censusData.error) =>
        walkshedPolygon = mergedPolygonRef

=============================================================================
